---- MODULE Spec2Model ----
(***************************************************************************)
(* Model of the forecasting core of finance-copilot (src/models/forecast.py).*)
(*                                                                         *)
(* Money is counted in integer cents, so a CSV amount "100.00" is 10000.   *)
(* A DataFrame is a header (sequence of column names) plus a sequence of   *)
(* rows; a row holds the raw CSV cells of the date, amount and type        *)
(* columns.  A raw date cell is an ISO "Y-M-D" text, written <<y, m, d>>;   *)
(* it parses only if it names a calendar day.  A raw amount cell is either *)
(* the decimal text of a number of cents or some non-numeric text.         *)
(* Sums and means are exact rationals <<numerator, denominator>>; the only *)
(* rounding is the final round(x, 2) of the forecasts.  Every date cell is *)
(* parsed on its own, all cells being in the one ISO format.               *)
(***************************************************************************)
EXTENDS Integers, Sequences, FiniteSets, TLC

VARIABLES df, monthly, out, transactions, self_df, report, data, loaded,
          transactions_db, uploading, forecasting, listing, response,
          called, session_state, cache, shown

\* the variables of the backend process, and those of the frontend session
service == <<transactions_db, uploading, forecasting, listing, response>>
session == <<session_state, cache, shown>>
core == <<df, monthly, out, transactions, self_df, report, data, loaded>>

vars == <<df, monthly, out, transactions, self_df, report, data, loaded,
          service, called, session>>

(***************************************************************************)
(* Bounds of the explored inputs.                                          *)
(***************************************************************************)
MaxRows == 3
MaxMonths == 4
MaxWindow == 3
MaxHeaderRows == 1

(***************************************************************************)
(* Raw cells and rows.                                                     *)
(***************************************************************************)
ValidDates == { <<2023, 12, 31>>, <<2024, 1, 31>>, <<2024, 3, 15>> }
BadDate == <<2024, 13, 1>>
Amounts == { 5000, 10000 }
SeriesAmounts == { 5000, 10000, 15000, 20000 }

NumCell(a) == [numeric |-> TRUE, val |-> a]
TextCell == [numeric |-> FALSE, val |-> 0]

Row(d, a, t) == [date |-> d, amount |-> a, type |-> t]

DebitRows == { Row(d, NumCell(a), "debit") : d \in ValidDates, a \in Amounts }
CreditRows == { Row(<<2024, 1, 1>>, NumCell(5000), "credit"),
                Row(<<2024, 3, 15>>, NumCell(10000), "credit") }
BadRows == { Row(BadDate, NumCell(10000), "debit"),
             Row(<<2024, 1, 31>>, TextCell, "debit") }
Rows == DebitRows \cup CreditRows \cup BadRows

SeqsUpTo(S, n) == UNION { [1..k -> S] : k \in 0..n }

StdHeader == <<"date", "amount", "type">>
OtherHeaders == { <<"date", "Amount", "type">>, <<"Date", "amount", "type">>,
                  <<"date", "value", "type">> }

\* pd.DataFrame(list of dicts): the columns are the keys of the records, so
\* an empty list gives a frame without columns.
DataFrame(records) ==
    [columns |-> IF records = <<>> THEN <<>> ELSE StdHeader, rows |-> records]

\* pd.read_csv keeps the header of the file even when it has no rows.
read_csv(header, records) == [columns |-> header, rows |-> records]

Frames ==
    { DataFrame(rs) : rs \in SeqsUpTo(Rows, MaxRows) }
    \cup { read_csv(StdHeader, <<>>) }
    \cup { read_csv(h, rs) : h \in OtherHeaders, rs \in SeqsUpTo(DebitRows, MaxHeaderRows) }

\* One debit per month over consecutive months starting in December 2023:
\* the frames whose monthly totals are a chosen series.  All amounts are
\* multiples of 50.00, so no forecast falls on a half cent.
SeriesDate(i) == <<2023 + ((10 + i) \div 12), ((10 + i) % 12) + 1, 15>>

SeriesRows(ys) == [i \in 1..Len(ys) |-> Row(SeriesDate(i), NumCell(ys[i]), "debit")]

SeriesFrames ==
    { DataFrame(SeriesRows(ys)) : ys \in SeqsUpTo(SeriesAmounts, MaxMonths) }
    \cup { read_csv(StdHeader, <<>>) }
    \cup { DataFrame(<<r>>) : r \in BadRows }

(***************************************************************************)
(* Helpers on sequences and rationals.                                     *)
(***************************************************************************)
RECURSIVE SeqSum(_)
SeqSum(s) == IF s = <<>> THEN 0 ELSE Head(s) + SeqSum(Tail(s))

Min(a, b) == IF a <= b THEN a ELSE b

\* Python round(x, 2) of the amount num/den cents (den > 0): the nearest
\* whole cent, a tie going to the even cent.
round2(num, den) ==
    LET up == (2 * num + den) \div (2 * den)
        tie == (2 * num + den) % (2 * den) = 0
    IN IF tie /\ up % 2 # 0 THEN up - 1 ELSE up

(***************************************************************************)
(* Column conversions of prepare_monthly_data.                             *)
(***************************************************************************)
IsLeap(y) == (y % 4 = 0 /\ y % 100 # 0) \/ y % 400 = 0

DaysInMonth(y, m) ==
    IF m = 2 THEN (IF IsLeap(y) THEN 29 ELSE 28)
    ELSE IF m \in {4, 6, 9, 11} THEN 30 ELSE 31

NaT == [nat |-> TRUE, y |-> 0, m |-> 0, d |-> 0]

\* pd.to_datetime(cell, errors="coerce")
to_datetime(cell) ==
    LET y == cell[1]
        m == cell[2]
        d == cell[3]
    IN IF m \in 1..12 /\ d >= 1 /\ d <= DaysInMonth(y, m)
       THEN [nat |-> FALSE, y |-> y, m |-> m, d |-> d]
       ELSE NaT

NaN == [nan |-> TRUE, val |-> 0]

\* pd.to_numeric(cell, errors="coerce")
to_numeric(cell) == IF cell.numeric THEN [nan |-> FALSE, val |-> cell.val] ELSE NaN

\* str.lower() on the column names that occur
lower(c) == CASE c = "Amount" -> "amount"
              [] c = "Date" -> "date"
              [] OTHER -> c

\* next((c for c in df.columns if c.lower() == "amount"), None)
amount_col(columns) ==
    LET hits == SelectSeq(columns, LAMBDA c : lower(c) = "amount")
    IN IF hits = <<>> THEN "" ELSE Head(hits)

InColumns(c, columns) == \E i \in 1..Len(columns) : columns[i] = c

\* the converted frame: one [date, amount, type] record per row
convert(rows) ==
    [i \in 1..Len(rows) |->
        [date |-> to_datetime(rows[i].date),
         amount |-> to_numeric(rows[i].amount),
         type |-> rows[i].type]]

\* variant: dropna(subset=["date"]) only, a NaN amount counting as nothing
dropna_date_only(conv) == SelectSeq(conv, LAMBDA r : ~r.date.nat)

\* df.dropna(subset=["date", amount_col])
dropna(conv) == SelectSeq(conv, LAMBDA r : ~r.date.nat /\ ~r.amount.nan)

\* Series.dt.to_period("M")
to_period(ts) == [year |-> ts.y, month |-> ts.m]

Ordinal(p) == p.year * 12 + (p.month - 1)

\* Period.to_timestamp(): the first day of the month
to_timestamp(p) == <<p.year, p.month, 1>>

RECURSIVE SortPeriods(_)
SortPeriods(S) ==
    IF S = {} THEN <<>>
    ELSE LET first == CHOOSE p \in S : \A q \in S : Ordinal(p) <= Ordinal(q)
         IN <<first>> \o SortPeriods(S \ {first})

RECURSIVE FirstSeen(_)
FirstSeen(ps) ==
    IF ps = <<>> THEN <<>>
    ELSE LET rest == FirstSeen(SubSeq(ps, 1, Len(ps) - 1))
             last == ps[Len(ps)]
         IN IF \E i \in 1..Len(rest) : rest[i] = last THEN rest ELSE Append(rest, last)

\* group keys in order of first appearance (what groupby(sort=False) would give)
group_keys_unsorted(clean) ==
    FirstSeen([i \in 1..Len(clean) |-> to_period(clean[i].date)])

FromOrdinal(o) == [year |-> o \div 12, month |-> (o % 12) + 1]

\* variant: every calendar month from the first to the last observed one
\* (what resample("M") would give)
group_keys_filled(clean) ==
    LET ords == { Ordinal(to_period(clean[i].date)) : i \in 1..Len(clean) }
    IN IF ords = {} THEN <<>>
       ELSE LET lo == CHOOSE o \in ords : \A q \in ords : o <= q
                hi == CHOOSE o \in ords : \A q \in ords : o >= q
            IN [i \in 1..(hi - lo + 1) |-> FromOrdinal(lo + i - 1)]

\* df.groupby(period): the distinct observed periods, sorted ascending
group_keys(clean) ==
    SortPeriods({ to_period(clean[i].date) : i \in 1..Len(clean) })

\* the amounts summed by .sum() for one group: every row of the period
group_amounts(clean, p) ==
    LET members == SelectSeq(clean, LAMBDA r : to_period(r.date) = p)
    IN [i \in 1..Len(members) |-> members[i].amount.val]

Ok(buckets) == [kind |-> "ok", msg |-> "", buckets |-> buckets]
Raise(kind, msg) == [kind |-> kind, msg |-> msg, buckets |-> <<>>]

\* variant: a batch left without any usable row is refused
prepare_monthly_data_strict(frame) ==
    IF ~InColumns("date", frame.columns)
    THEN Raise("ValueError", "Missing 'date' column in transactions data.")
    ELSE IF amount_col(frame.columns) = ""
    THEN Raise("ValueError", "No 'amount' column found.")
    ELSE LET clean == dropna(convert(frame.rows))
             keys == group_keys(clean)
         IN IF clean = <<>> /\ frame.rows # <<>>
            THEN Raise("ValueError", "No usable rows in transactions data.")
            ELSE Ok([i \in 1..Len(keys) |->
                       [month |-> to_timestamp(keys[i]),
                        amount |-> SeqSum(group_amounts(clean, keys[i])),
                        month_idx |-> i - 1]])

prepare_monthly_data(frame) ==
    IF ~InColumns("date", frame.columns)
    THEN Raise("ValueError", "Missing 'date' column in transactions data.")
    ELSE IF amount_col(frame.columns) = ""
    THEN Raise("ValueError", "No 'amount' column found.")
    ELSE LET clean == dropna(convert(frame.rows))
             keys == group_keys(clean)
         IN Ok([i \in 1..Len(keys) |->
                  [month |-> to_timestamp(keys[i]),
                   amount |-> SeqSum(group_amounts(clean, keys[i])),
                   month_idx |-> i - 1]])

(***************************************************************************)
(* The two forecasting algorithms.  A forecast result is                   *)
(* [kind, msg, value]: kind "ok" with the forecast in cents, or the kind   *)
(* of the exception raised with its message.                               *)
(***************************************************************************)
Value(v) == [kind |-> "ok", msg |-> "", value |-> v]
Fail(kind, msg) == [kind |-> kind, msg |-> msg, value |-> 0]

amounts_of(buckets) == [i \in 1..Len(buckets) |-> buckets[i].amount]

\* Series.rolling(window, min_periods=1).mean().iloc[-1]: the mean of the
\* last min(window, n) values, as <<sum, count>>
rolling_mean_last(s, window) ==
    LET k == Min(window, Len(s))
    IN <<SeqSum(SubSeq(s, Len(s) - k + 1, Len(s))), k>>

\* variant: the first entry differenced against 0
diff_from_zero(s) ==
    [i \in 1..Len(s) |-> [nan |-> FALSE, val |-> IF i = 1 THEN s[1] ELSE s[i] - s[i - 1]]]

\* variant: previous minus current
diff_reversed(s) ==
    [i \in 1..Len(s) |-> IF i = 1 THEN NaN ELSE [nan |-> FALSE, val |-> s[i - 1] - s[i]]]

\* Series.diff(): the first entry has no predecessor and is NaN
diff(s) ==
    [i \in 1..Len(s) |-> IF i = 1 THEN NaN ELSE [nan |-> FALSE, val |-> s[i] - s[i - 1]]]

\* Series.fillna(0)
fillna0(s) == [i \in 1..Len(s) |-> IF s[i].nan THEN 0 ELSE s[i].val]

\* Series.mean() of a series without NaN, as <<sum, count>>
mean(s) == <<SeqSum(s), Len(s)>>

\* variant: no data forecasts 0.00 instead of failing
forecast_rolling_trend_zero(buckets, window) ==
    IF buckets = <<>>
    THEN Value(0)
    ELSE LET rolling_avg == rolling_mean_last(amounts_of(buckets), window)
             trend == mean(fillna0(diff(amounts_of(buckets))))
         IN Value(round2(rolling_avg[1] * trend[2] + trend[1] * rolling_avg[2],
                         rolling_avg[2] * trend[2]))

\* variant: a single month is refused as well
forecast_rolling_trend_min2(buckets, window) ==
    IF Len(buckets) < 2
    THEN Fail("ValueError", "No data available for forecasting.")
    ELSE LET rolling_avg == rolling_mean_last(amounts_of(buckets), window)
             trend == mean(fillna0(diff(amounts_of(buckets))))
         IN Value(round2(rolling_avg[1] * trend[2] + trend[1] * rolling_avg[2],
                         rolling_avg[2] * trend[2]))

forecast_rolling_trend(buckets, window) ==
    IF buckets = <<>>
    THEN Fail("ValueError", "No data available for forecasting.")
    ELSE LET rolling_avg == rolling_mean_last(amounts_of(buckets), window)
             trend == mean(fillna0(diff(amounts_of(buckets))))
         IN Value(round2(rolling_avg[1] * trend[2] + trend[1] * rolling_avg[2],
                         rolling_avg[2] * trend[2]))

\* LinearRegression().fit(X, y) with one feature: the data are centred,
\* coef = Sxy / Sxx and intercept = mean(y) - coef * mean(x).  With n points
\* the centred values are kept as n*x - sum(x) and n*y - sum(y).
linreg_fit(xs, ys) ==
    LET n == Len(xs)
        sx == SeqSum(xs)
        sy == SeqSum(ys)
        sxy == SeqSum([i \in 1..n |-> (n * xs[i] - sx) * (n * ys[i] - sy)])
        sxx == SeqSum([i \in 1..n |-> (n * xs[i] - sx) * (n * xs[i] - sx)])
    IN [n |-> n, sx |-> sx, sy |-> sy, sxy |-> sxy, sxx |-> sxx]

\* variant: the prediction floored at zero
linreg_predict_floored(fit, x) ==
    LET num == fit.sy * fit.sxx + fit.sxy * (fit.n * x - fit.sx)
    IN <<IF num < 0 THEN 0 ELSE num, fit.n * fit.sxx>>

\* model.predict([[x]]) = intercept + coef * x, as <<numerator, denominator>>
linreg_predict(fit, x) ==
    <<fit.sy * fit.sxx + fit.sxy * (fit.n * x - fit.sx), fit.n * fit.sxx>>

\* variant: three months required
forecast_linear_regression_min3(buckets) ==
    IF Len(buckets) < 3
    THEN Fail("ValueError", "Need at least 2 months of data for linear regression.")
    ELSE LET X == [i \in 1..Len(buckets) |-> buckets[i].month_idx]
             y == amounts_of(buckets)
             model == linreg_fit(X, y)
             forecast == linreg_predict(model, buckets[Len(buckets)].month_idx + 1)
         IN Value(round2(forecast[1], forecast[2]))

forecast_linear_regression(buckets) ==
    IF Len(buckets) < 2
    THEN Fail("ValueError", "Need at least 2 months of data for linear regression.")
    ELSE LET X == [i \in 1..Len(buckets) |-> buckets[i].month_idx]
             y == amounts_of(buckets)
             model == linreg_fit(X, y)
             next_month_idx == buckets[Len(buckets)].month_idx + 1
             forecast == linreg_predict(model, next_month_idx)
         IN Value(round2(forecast[1], forecast[2]))

(***************************************************************************)
(* get_forecast.  Its result is [kind, msg, predicted_next_month_amount,   *)
(* historical_months, historical_amounts].                                 *)
(***************************************************************************)
Methods == { "rolling", "linear", "median" }

\* variant: "%Y-%-m", the month without its leading zero
two_digits_unpadded(k) == ToString(k)

two_digits(k) == (IF k < 10 THEN "0" ELSE "") \o ToString(k)

\* Timestamp.strftime("%Y-%m")
strftime_Ym(ts) == ToString(ts[1]) \o "-" \o two_digits(ts[2])

Error(kind, msg) ==
    [kind |-> kind, msg |-> msg, predicted_next_month_amount |-> 0,
     historical_months |-> <<>>, historical_amounts |-> <<>>]

\* variant: the method is validated before the data are aggregated
get_forecast_method_first(frame, method) ==
    LET m == prepare_monthly_data(frame)
        forecast_value ==
            IF method = "rolling" THEN forecast_rolling_trend(m.buckets, 3)
            ELSE forecast_linear_regression(m.buckets)
    IN IF method \notin {"rolling", "linear"}
       THEN Error("ValueError", "Invalid method. Choose 'rolling' or 'linear'.")
       ELSE IF m.kind # "ok" THEN Error(m.kind, m.msg)
       ELSE IF forecast_value.kind # "ok" THEN Error(forecast_value.kind, forecast_value.msg)
       ELSE [kind |-> "ok", msg |-> "",
             predicted_next_month_amount |-> forecast_value.value,
             historical_months |->
                 [i \in 1..Len(m.buckets) |-> strftime_Ym(m.buckets[i].month)],
             historical_amounts |-> amounts_of(m.buckets)]

get_forecast(frame, method) ==
    LET m == prepare_monthly_data(frame)
        forecast_value ==
            IF method = "rolling" THEN forecast_rolling_trend(m.buckets, 3)
            ELSE IF method = "linear" THEN forecast_linear_regression(m.buckets)
            ELSE Fail("ValueError", "Invalid method. Choose 'rolling' or 'linear'.")
    IN IF m.kind # "ok" THEN Error(m.kind, m.msg)
       ELSE IF forecast_value.kind # "ok" THEN Error(forecast_value.kind, forecast_value.msg)
       ELSE [kind |-> "ok", msg |-> "",
             predicted_next_month_amount |-> forecast_value.value,
             historical_months |->
                 [i \in 1..Len(m.buckets) |-> strftime_Ym(m.buckets[i].month)],
             historical_amounts |-> amounts_of(m.buckets)]

(***************************************************************************)
(* The finance_copilot package: Transaction, TransactionAnalyzer and       *)
(* SpendingForecaster.  A datetime is a day number (all transactions and   *)
(* the clock carry the same time of day), money is in cents, None is the   *)
(* string "None".  A pandas Series or dict with string keys is a sequence  *)
(* of <<key, value>> pairs in its iteration order.                         *)
(***************************************************************************)
MaxTxns == 3
MaxLimit == 2

None == "None"

\* the dataclass: a datetime is a day number, day 1 being 2024-01-01 at
\* the common time of day; an amount is a Python value, NumCell(cents) for
\* a number
Transaction(id, date, description, amount, type, category, merchant, status, notes) ==
    [id |-> id, date |-> date, description |-> description, amount |-> amount,
     type |-> type, category |-> category, merchant |-> merchant,
     status |-> status, notes |-> notes]

\* TransactionType(...).value
TransactionType_value(t) == CASE t = "DEBIT" -> "debit" [] t = "CREDIT" -> "credit"

\* TransactionCategory(...).value
TransactionCategory_value(c) ==
    CASE c = "FOOD_DINING" -> "Food & Dining"
      [] c = "GROCERIES" -> "Groceries"
      [] c = "SHOPPING" -> "Shopping"
      [] c = "ENTERTAINMENT" -> "Entertainment"
      [] c = "TRANSPORTATION" -> "Transportation"
      [] c = "BILLS_UTILITIES" -> "Bills & Utilities"
      [] c = "HEALTHCARE" -> "Healthcare"
      [] c = "PERSONAL" -> "Personal"
      [] c = "TRANSFER" -> "Transfer"
      [] c = "INCOME" -> "Income"
      [] c = "OTHER" -> "Other"

\* the string order pandas sorts group keys by, on the keys that occur
SortedKeys ==
    <<"Bills & Utilities", "Entertainment", "Food & Dining", "Groceries",
      "Healthcare", "Income", "Landlord", "Other", "Personal", "Shopping",
      "Starbucks", "Transfer", "Transportation", "Whole Foods">>

\* the readings of datetime.now() and the arguments of the calls
Clock == { 100, 107 }
DayWindows == { 7, 30 }
AllHistory == [all |-> TRUE, n |-> 0]
LastDays(n) == [all |-> FALSE, n |-> n]
DaysArgs == { AllHistory } \cup { LastDays(n) : n \in DayWindows }
Tolerances == { 3, 25 }

\* histories given to the analyzer
AnalyzerTransactions ==
    { Transaction("TXN001", 98, "Groceries", NumCell(15000), "DEBIT", "GROCERIES",
                  "Whole Foods", "completed", None),
      Transaction("TXN002", 98, "Coffee", NumCell(550), "DEBIT", "FOOD_DINING",
                  "Starbucks", "completed", None),
      Transaction("TXN003", 60, "Groceries", NumCell(15000), "DEBIT", "GROCERIES",
                  "Starbucks", "completed", None),
      Transaction("TXN004", 98, "Lunch", NumCell(4500), "DEBIT", "FOOD_DINING",
                  None, "completed", None),
      Transaction("TXN005", 98, "Refund", NumCell(550), "CREDIT", "OTHER",
                  "Whole Foods", "completed", None) }

\* histories given to the forecaster
ForecasterTransactions ==
    { Transaction("RENT", d, "Rent Payment", NumCell(a), "DEBIT", "BILLS_UTILITIES",
                  "Landlord", "completed", None) :
          d \in {40, 70, 95, 100}, a \in {120000, 132000} }
    \cup { Transaction("COFFEE", 95, "Coffee", NumCell(550), "DEBIT", "FOOD_DINING",
                       "Starbucks", "completed", None),
           Transaction("COFFEE", 100, "Coffee", NumCell(495), "DEBIT", "FOOD_DINING",
                       "Starbucks", "completed", None) }
    \cup { Transaction("REFUND", 70, "Rent Payment", NumCell(120000), "CREDIT", "TRANSFER",
                       "Landlord", "completed", None) }

\* the calendar date <<year, month, day>> of a day number, and back
EpochYear == 2024

RECURSIVE DateFrom(_, _, _)
DateFrom(y, m, n) ==
    IF n <= DaysInMonth(y, m) THEN <<y, m, n>>
    ELSE IF m = 12 THEN DateFrom(y + 1, 1, n - DaysInMonth(y, m))
    ELSE DateFrom(y, m + 1, n - DaysInMonth(y, m))

DateOfDay(n) == DateFrom(EpochYear, 1, n)

RECURSIVE DaysBefore(_, _)
DaysBefore(y, m) ==
    IF y = EpochYear /\ m = 1 THEN 0
    ELSE IF m = 1 THEN DaysBefore(y - 1, 12) + DaysInMonth(y - 1, 12)
    ELSE DaysBefore(y, m - 1) + DaysInMonth(y, m - 1)

DayOfDate(y, m, d) == DaysBefore(y, m) + d

\* the time of day all datetimes of a run share: 10:30:00
TimeOfDay == <<10, 30, 0>>

\* a text is the sequence of its characters
DigitChars == <<"0", "1", "2", "3", "4", "5", "6", "7", "8", "9">>

DigitValue(c) ==
    CASE c = "0" -> 0 [] c = "1" -> 1 [] c = "2" -> 2 [] c = "3" -> 3 [] c = "4" -> 4
      [] c = "5" -> 5 [] c = "6" -> 6 [] c = "7" -> 7 [] c = "8" -> 8 [] c = "9" -> 9
      [] OTHER -> -1

\* '%d' of a number below 100
digits_unpadded(k) ==
    IF k < 10 THEN <<DigitChars[k + 1]>>
    ELSE <<DigitChars[(k \div 10) + 1], DigitChars[(k % 10) + 1]>>

\* '%02d' and '%04d'
digits2(k) == <<DigitChars[((k \div 10) % 10) + 1], DigitChars[(k % 10) + 1]>>
digits4(k) == digits2(k \div 100) \o digits2(k % 100)

\* datetime.isoformat(): 'YYYY-MM-DDTHH:MM:SS'
isoformat_unpadded(dt) ==
    LET c == DateOfDay(dt)
    IN digits4(c[1]) \o <<"-">> \o digits_unpadded(c[2]) \o <<"-">> \o digits_unpadded(c[3])
       \o <<"T">> \o digits2(TimeOfDay[1]) \o <<":">> \o digits2(TimeOfDay[2])
       \o <<":">> \o digits2(TimeOfDay[3])

isoformat(dt) ==
    LET c == DateOfDay(dt)
    IN digits4(c[1]) \o <<"-">> \o digits2(c[2]) \o <<"-">> \o digits2(c[3])
       \o <<"T">> \o digits2(TimeOfDay[1]) \o <<":">> \o digits2(TimeOfDay[2])
       \o <<":">> \o digits2(TimeOfDay[3])

\* the number written at positions a..b of a text, -1 unless all are digits
RECURSIVE NumberAt(_, _, _)
NumberAt(text, a, b) ==
    IF DigitValue(text[b]) = -1 THEN -1
    ELSE IF a = b THEN DigitValue(text[b])
    ELSE LET high == NumberAt(text, a, b - 1)
         IN IF high = -1 THEN -1 ELSE 10 * high + DigitValue(text[b])

Parsed(dt) == [ok |-> TRUE, value |-> dt]
Unparsed == [ok |-> FALSE, value |-> 0]

\* datetime.fromisoformat(text), a ValueError being Unparsed; the texts of
\* a run carry the common time of day and years from EpochYear on
fromisoformat(text) ==
    IF Len(text) # 19 THEN Unparsed
    ELSE LET y == NumberAt(text, 1, 4)
             m == NumberAt(text, 6, 7)
             d == NumberAt(text, 9, 10)
             hh == NumberAt(text, 12, 13)
             mm == NumberAt(text, 15, 16)
             ss == NumberAt(text, 18, 19)
         IN IF /\ text[5] = "-" /\ text[8] = "-" /\ text[11] = "T"
               /\ text[14] = ":" /\ text[17] = ":"
               /\ y >= EpochYear /\ m \in 1..12
               /\ d >= 1 /\ d <= DaysInMonth(y, m)
               /\ hh \in 0..23 /\ mm \in 0..59 /\ ss \in 0..59
            THEN Parsed(DayOfDate(y, m, d))
            ELSE Unparsed

\* a variant that renders the enums by their member names
to_dict_enum_names(t) ==
    [id |-> t.id, date |-> isoformat(t.date), description |-> t.description,
     amount |-> t.amount, type |-> t.type, category |-> t.category,
     merchant |-> t.merchant, status |-> t.status, notes |-> t.notes]

\* Transaction.to_dict
to_dict(t) ==
    [id |-> t.id, date |-> isoformat(t.date), description |-> t.description,
     amount |-> t.amount,
     type |-> TransactionType_value(t.type),
     category |-> TransactionCategory_value(t.category),
     merchant |-> t.merchant, status |-> t.status, notes |-> t.notes]

\* TransactionType(value) and TransactionCategory(value): the member with
\* that value
TypeNames == { "DEBIT", "CREDIT" }
CategoryNames ==
    { "FOOD_DINING", "GROCERIES", "SHOPPING", "ENTERTAINMENT", "TRANSPORTATION",
      "BILLS_UTILITIES", "HEALTHCARE", "PERSONAL", "TRANSFER", "INCOME", "OTHER" }

IsTransactionType(v) == \E n \in TypeNames : TransactionType_value(n) = v
TransactionType(v) == CHOOSE n \in TypeNames : TransactionType_value(n) = v
IsTransactionCategory(v) == \E n \in CategoryNames : TransactionCategory_value(n) = v
TransactionCategory(v) == CHOOSE n \in CategoryNames : TransactionCategory_value(n) = v

\* dict.get(key, default)
get(mapping, key, default) == IF key \in DOMAIN mapping THEN mapping[key] ELSE default

NoTransaction ==
    Transaction("", 1, "", NumCell(0), "DEBIT", "OTHER", None, "completed", None)

Loaded(t) == [kind |-> "ok", exc |-> "", value |-> t]
Failed(exc) == [kind |-> "raise", exc |-> exc, value |-> NoTransaction]

\* a variant that checks that the amount is a number
from_dict_numeric_amount(mapping) ==
    IF { "id", "date", "description", "amount", "type", "category" } \ DOMAIN mapping # {}
    THEN Failed("KeyError")
    ELSE IF ~fromisoformat(mapping.date).ok \/ ~mapping.amount.numeric
            \/ ~IsTransactionType(mapping.type) \/ ~IsTransactionCategory(mapping.category)
    THEN Failed("ValueError")
    ELSE Loaded(Transaction(mapping.id, fromisoformat(mapping.date).value, mapping.description,
                            mapping.amount, TransactionType(mapping.type),
                            TransactionCategory(mapping.category),
                            get(mapping, "merchant", None),
                            get(mapping, "status", "completed"),
                            get(mapping, "notes", None)))

\* Transaction.from_dict: the keyword arguments are evaluated in order
from_dict(mapping) ==
    IF "id" \notin DOMAIN mapping THEN Failed("KeyError")
    ELSE IF "date" \notin DOMAIN mapping THEN Failed("KeyError")
    ELSE IF ~fromisoformat(mapping.date).ok THEN Failed("ValueError")
    ELSE IF "description" \notin DOMAIN mapping THEN Failed("KeyError")
    ELSE IF "amount" \notin DOMAIN mapping THEN Failed("KeyError")
    ELSE IF "type" \notin DOMAIN mapping THEN Failed("KeyError")
    ELSE IF ~IsTransactionType(mapping.type) THEN Failed("ValueError")
    ELSE IF "category" \notin DOMAIN mapping THEN Failed("KeyError")
    ELSE IF ~IsTransactionCategory(mapping.category) THEN Failed("ValueError")
    ELSE Loaded(Transaction(mapping.id, fromisoformat(mapping.date).value, mapping.description,
                            mapping.amount, TransactionType(mapping.type),
                            TransactionCategory(mapping.category),
                            get(mapping, "merchant", None),
                            get(mapping, "status", "completed"),
                            get(mapping, "notes", None)))

\* the Transaction objects that are serialised
SerialTransactions ==
    { Transaction("TXN001", d, "Coffee at Starbucks", NumCell(575), t, c, m, st, None) :
          d \in { 31, 60, 366, 367 }, t \in TypeNames,
          c \in { "FOOD_DINING", "BILLS_UTILITIES", "OTHER" },
          m \in { None, "Starbucks" }, st \in { "completed", "pending" } }

\* the mappings handed to from_dict from outside: the literal of
\* test_transaction_from_dict and damaged copies of it
TestMapping == to_dict(Transaction("TXN001", 15, "Coffee at Starbucks", NumCell(575), "DEBIT",
                                   "FOOD_DINING", "Starbucks", "completed", None))

Keys == { "id", "date", "description", "amount", "type", "category",
          "merchant", "status", "notes" }

Defects ==
    { "none", "amount_text", "date_month_13", "date_words", "date_day_30_feb",
      "type_unknown", "type_member_name", "category_unknown" }

without(mapping, key) == [k \in (DOMAIN mapping) \ {key} |-> mapping[k]]

Damaged(mapping, defect) ==
    CASE defect = "none" -> mapping
      [] defect = "amount_text" -> [mapping EXCEPT !.amount = TextCell]
      [] defect = "date_month_13" ->
             [mapping EXCEPT !.date = <<"2", "0", "2", "4", "-", "1", "3", "-", "0", "1", "T",
                                        "1", "0", ":", "3", "0", ":", "0", "0">>]
      [] defect = "date_day_30_feb" ->
             [mapping EXCEPT !.date = <<"2", "0", "2", "4", "-", "0", "2", "-", "3", "0", "T",
                                        "1", "0", ":", "3", "0", ":", "0", "0">>]
      [] defect = "date_words" ->
             [mapping EXCEPT !.date = <<"n", "o", "t", "-", "a", "-", "d", "a", "t", "e">>]
      [] defect = "type_unknown" -> [mapping EXCEPT !.type = "refund"]
      [] defect = "type_member_name" -> [mapping EXCEPT !.type = "DEBIT"]
      [] defect = "category_unknown" -> [mapping EXCEPT !.category = "Food"]

\* the last call of from_dict: its argument and its outcome
Call(mapping, result) == [mapping |-> mapping, result |-> result]
NotLoaded == Call(to_dict(NoTransaction), [kind |-> "none", exc |-> "", value |-> NoTransaction])

\* TransactionAnalyzer._to_dataframe / SpendingForecaster._to_dataframe:
\* the frame is its sequence of rows, an empty sequence being df.empty; the
\* date column goes through pd.to_datetime, the amount column through
\* pd.to_numeric
to_dataframe(txns) ==
    [i \in 1..Len(txns) |->
        LET d == to_dict(txns[i])
        IN [id |-> d.id,
            date |-> fromisoformat(d.date).value,
            description |-> d.description,
            amount |-> to_numeric(d.amount).val,
            type |-> d.type,
            category |-> d.category,
            merchant |-> d.merchant,
            status |-> d.status,
            notes |-> d.notes]]

\* a variant that ignores the days argument
filter_by_days_ignored(frame, days, now) == frame

\* TransactionAnalyzer._filter_by_days
filter_by_days(frame, days, now) ==
    IF frame = <<>> THEN frame
    ELSE IF days.all THEN frame
    ELSE SelectSeq(frame, LAMBDA r : r.date >= now - days.n)

debits_of(frame) == SelectSeq(frame, LAMBDA r : r.type = TransactionType_value("DEBIT"))
credits_of(frame) == SelectSeq(frame, LAMBDA r : r.type = TransactionType_value("CREDIT"))

\* Series.sum() of the amount column
amount_sum(frame) == SeqSum([i \in 1..Len(frame) |-> frame[i].amount])

get_total_spent(stored, days, now) ==
    LET frame == filter_by_days(stored, days, now)
    IN IF frame = <<>> THEN 0 ELSE amount_sum(debits_of(frame))

get_total_income(stored, days, now) ==
    LET frame == filter_by_days(stored, days, now)
    IN IF frame = <<>> THEN 0 ELSE amount_sum(credits_of(frame))

get_net_cashflow(stored, days, now) ==
    get_total_income(stored, days, now) - get_total_spent(stored, days, now)

\* frame.groupby(column)['amount'].sum(): one <<key, total>> per observed
\* key, the keys sorted
groupby_sum(frame, column) ==
    LET present == SelectSeq(SortedKeys, LAMBDA k : \E i \in 1..Len(frame) : frame[i][column] = k)
    IN [j \in 1..Len(present) |->
          <<present[j], amount_sum(SelectSeq(frame, LAMBDA r : r[column] = present[j]))>>]

\* a variant that groups every row, credits included
get_spending_by_category_all_types(stored, days, now) ==
    LET frame == filter_by_days(stored, days, now)
    IN IF frame = <<>> THEN <<>>
       ELSE groupby_sum(frame, "category")

get_spending_by_category(stored, days, now) ==
    LET frame == filter_by_days(stored, days, now)
        debits == debits_of(frame)
    IN IF frame = <<>> THEN <<>>
       ELSE IF debits = <<>> THEN <<>>
       ELSE groupby_sum(debits, "category")

\* removes position i of a sequence
RemoveAt(s, i) == SubSeq(s, 1, i - 1) \o SubSeq(s, i + 1, Len(s))

\* the fast method of Series.nlargest(n), keep='first': the n largest
\* values in descending order by a stable sort, equal values in their order
\* in the series
RECURSIVE nlargest_first(_, _)
nlargest_first(series, n) ==
    IF n <= 0 \/ series = <<>> THEN <<>>
    ELSE LET best == CHOOSE i \in 1..Len(series) :
                        /\ \A j \in 1..Len(series) : series[j][2] <= series[i][2]
                        /\ \A j \in 1..(i - 1) : series[j][2] < series[i][2]
         IN <<series[best]>> \o nlargest_first(RemoveAt(series, best), n - 1)

\* Series.sort_values(ascending=False) with its default kind='quicksort',
\* which is not a stable sort: the outcomes are the descending arrangements
\* of the series, equal values in any order
sort_values_descending(series) ==
    { [i \in 1..Len(series) |-> series[f[i]]] :
        f \in { g \in [1..Len(series) -> 1..Len(series)] :
                  /\ \A i, j \in 1..Len(series) : g[i] = g[j] => i = j
                  /\ \A i \in 1..(Len(series) - 1) :
                         series[g[i]][2] >= series[g[i + 1]][2] } }

\* Series.nlargest(n): the outcomes a call can have.  With n >= len(series)
\* pandas takes the slow method, sort_values(ascending=False).head(n);
\* otherwise the fast method
nlargest(series, n) ==
    IF n <= 0 THEN { <<>> }
    ELSE IF n >= Len(series) THEN sort_values_descending(series)
    ELSE { nlargest_first(series, n) }

get_top_merchants(stored, limit, days, now) ==
    LET frame == filter_by_days(stored, days, now)
        debits == debits_of(frame)
        named == SelectSeq(debits, LAMBDA r : r.merchant # None)
    IN IF frame = <<>> THEN { <<>> }
       ELSE IF debits = <<>> THEN { <<>> }
       ELSE nlargest(groupby_sum(named, "merchant"), limit)

\* SpendingForecaster.get_spending_velocity; the percentage is the exact
\* fraction <<numerator, denominator>>
Stable(window_days) ==
    [velocity |-> <<0, 1>>, trend |-> "stable", recent_spending |-> 0,
     previous_spending |-> 0, window_days |-> window_days]

\* a variant without the guard on an empty preceding window: any recent
\* spending then counts as an increase
get_spending_velocity_unguarded(stored, window_days, now) ==
    LET debits == debits_of(stored)
        recent_start == now - window_days
        previous_start == now - 2 * window_days
        recent_spending == amount_sum(SelectSeq(debits, LAMBDA r : r.date >= recent_start))
        previous_spending ==
            amount_sum(SelectSeq(debits, LAMBDA r : r.date >= previous_start /\ r.date < recent_start))
        num == (recent_spending - previous_spending) * 100
        den == IF previous_spending = 0 THEN 1 ELSE previous_spending
    IN [velocity |-> <<num, den>>,
        trend |-> IF num > 10 * den THEN "increasing"
                  ELSE IF num < (-10) * den THEN "decreasing"
                  ELSE "stable",
        recent_spending |-> recent_spending,
        previous_spending |-> previous_spending,
        window_days |-> window_days]

\* a variant that counts a change of exactly 10% as a trend
get_spending_velocity_inclusive(stored, window_days, now) ==
    LET debits == debits_of(stored)
        recent_start == now - window_days
        previous_start == now - 2 * window_days
        recent_spending == amount_sum(SelectSeq(debits, LAMBDA r : r.date >= recent_start))
        previous_spending ==
            amount_sum(SelectSeq(debits, LAMBDA r : r.date >= previous_start /\ r.date < recent_start))
        num == (recent_spending - previous_spending) * 100
    IN IF previous_spending = 0
       THEN [velocity |-> <<0, 1>>, trend |-> "stable",
             recent_spending |-> recent_spending,
             previous_spending |-> previous_spending,
             window_days |-> window_days]
       ELSE [velocity |-> <<num, previous_spending>>,
             trend |-> IF num >= 10 * previous_spending THEN "increasing"
                       ELSE IF num <= (-10) * previous_spending THEN "decreasing"
                       ELSE "stable",
             recent_spending |-> recent_spending,
             previous_spending |-> previous_spending,
             window_days |-> window_days]

get_spending_velocity(stored, window_days, now) ==
    LET frame == stored
        debits == debits_of(frame)
        recent_start == now - window_days
        previous_start == now - 2 * window_days
        recent_spending == amount_sum(SelectSeq(debits, LAMBDA r : r.date >= recent_start))
        previous_spending ==
            amount_sum(SelectSeq(debits, LAMBDA r : r.date >= previous_start /\ r.date < recent_start))
        num == (recent_spending - previous_spending) * 100
    IN IF frame = <<>> THEN Stable(window_days)
       ELSE IF debits = <<>> THEN Stable(window_days)
       ELSE IF previous_spending = 0
            THEN [velocity |-> <<0, 1>>, trend |-> "stable",
                  recent_spending |-> recent_spending,
                  previous_spending |-> previous_spending,
                  window_days |-> window_days]
       ELSE [velocity |-> <<num, previous_spending>>,
             trend |-> IF num > 10 * previous_spending THEN "increasing"
                       ELSE IF num < (-10) * previous_spending THEN "decreasing"
                       ELSE "stable",
             recent_spending |-> recent_spending,
             previous_spending |-> previous_spending,
             window_days |-> window_days]

\* Series.unique(): the values in order of first appearance
unique(values) ==
    SelectSeq([i \in 1..Len(values) |-> <<i, values[i]>>],
              LAMBDA p : \A j \in 1..(p[1] - 1) : values[j] # p[2])

\* sort_values() of a column of day numbers
RECURSIVE sort_values(_)
sort_values(s) ==
    IF s = <<>> THEN <<>>
    ELSE LET i == CHOOSE k \in 1..Len(s) : \A j \in 1..Len(s) : s[k] <= s[j]
         IN <<s[i]>> \o sort_values(RemoveAt(s, i))

\* the gaps in days between consecutive dates
intervals_of(dates) == [i \in 1..(Len(dates) - 1) |-> dates[i + 1] - dates[i]]

SeqSumSq(s) == SeqSum([i \in 1..Len(s) |-> s[i] * s[i]])

\* np.std(intervals) <= tolerance_days, the population deviation, squared
\* and cleared of its denominators
std_within_noninclusive(intervals, tolerance_days) ==
    Len(intervals) * SeqSumSq(intervals) - SeqSum(intervals) * SeqSum(intervals)
        < tolerance_days * tolerance_days * Len(intervals) * Len(intervals)

std_within(intervals, tolerance_days) ==
    Len(intervals) * SeqSumSq(intervals) - SeqSum(intervals) * SeqSum(intervals)
        <= tolerance_days * tolerance_days * Len(intervals) * Len(intervals)

\* dates.iloc[-1] + timedelta(days=avg_interval), formatted '%Y-%m-%d':
\* the whole days of the mean interval move the date
next_expected_date_rounded_up(dates, intervals) ==
    dates[Len(dates)] + ((SeqSum(intervals) + Len(intervals) - 1) \div Len(intervals))

next_expected_date(dates, intervals) ==
    dates[Len(dates)] + (SeqSum(intervals) \div Len(intervals))

\* the entry appended for one description, or nothing
recurring_entry_from_two(debits, description, tolerance_days) ==
    LET desc_transactions == SelectSeq(debits, LAMBDA r : r.description = description)
        dates == sort_values([i \in 1..Len(desc_transactions) |-> desc_transactions[i].date])
        intervals == intervals_of(dates)
    IN IF Len(desc_transactions) < 2 THEN <<>>
       ELSE IF Len(intervals) >= 1 /\ std_within(intervals, tolerance_days)
            THEN << [description |-> description,
                     average_amount |-> <<amount_sum(desc_transactions), Len(desc_transactions)>>,
                     interval_days |-> <<SeqSum(intervals), Len(intervals)>>,
                     occurrences |-> Len(desc_transactions),
                     category |-> desc_transactions[1].category,
                     next_expected_date |-> next_expected_date(dates, intervals)] >>
       ELSE <<>>

recurring_entry(debits, description, tolerance_days) ==
    LET desc_transactions == SelectSeq(debits, LAMBDA r : r.description = description)
        dates == sort_values([i \in 1..Len(desc_transactions) |-> desc_transactions[i].date])
        intervals == intervals_of(dates)
    IN IF Len(desc_transactions) < 2 THEN <<>>
       ELSE IF Len(intervals) >= 2 /\ std_within(intervals, tolerance_days)
            THEN << [description |-> description,
                     average_amount |-> <<amount_sum(desc_transactions), Len(desc_transactions)>>,
                     interval_days |-> <<SeqSum(intervals), Len(intervals)>>,
                     occurrences |-> Len(desc_transactions),
                     category |-> desc_transactions[1].category,
                     next_expected_date |-> next_expected_date(dates, intervals)] >>
       ELSE <<>>

RECURSIVE Concat(_)
Concat(ss) == IF ss = <<>> THEN <<>> ELSE Head(ss) \o Concat(Tail(ss))

\* SpendingForecaster.identify_recurring_expenses
identify_recurring_expenses(stored, tolerance_days) ==
    LET frame == stored
        debits == debits_of(frame)
        descriptions == unique([i \in 1..Len(debits) |-> debits[i].description])
    IN IF frame = <<>> THEN <<>>
       ELSE Concat([k \in 1..Len(descriptions) |->
                       recurring_entry(debits, descriptions[k][2], tolerance_days)])

\* the last call on the analyzer or the forecaster and what it returned
NoStat == [velocity |-> <<0, 1>>, trend |-> "", recent_spending |-> 0,
           previous_spending |-> 0, window_days |-> 0]

Report(op, days, now, arg, number, items, velocity, recurring) ==
    [op |-> op, days |-> days, now |-> now, arg |-> arg, number |-> number,
     items |-> items, velocity |-> velocity, recurring |-> recurring]

NoReport == Report("none", AllHistory, 0, 0, 0, <<>>, NoStat, <<>>)

(***************************************************************************)
(* The backend (src/backend): the in-memory store transactions_db, the     *)
(* upload, transactions, forecast and analyze endpoints and the LLM        *)
(* client; and the Streamlit frontend (src/frontend/app.py).  A response   *)
(* body is a record whose fields are the keys of the returned dict.  An    *)
(* uploaded file is its name, whether its bytes are UTF-8, its header and  *)
(* its parsed records; of a record the date, amount, type and category     *)
(* cells are kept.  Waits are in tenths of a second.                       *)
(***************************************************************************)
MaxSkip == 1
MaxPage == 2

Record(d, a, t, c) == [date |-> d, amount |-> a, type |-> t, category |-> c]

CsvFile(name, utf8, columns, records) ==
    [name |-> name, utf8 |-> utf8, columns |-> columns, records |-> records]

CsvHeader == <<"date", "description", "amount", "type", "category">>

\* the files that are uploaded: two months of debits, one month, a header
\* without rows (and without the category column), bytes that are not
\* UTF-8, and a file of zero bytes
TwoMonthsFile ==
    CsvFile("two_months.csv", TRUE, CsvHeader,
            << Record(SeriesDate(1), NumCell(10000), "debit", "Groceries"),
               Record(SeriesDate(2), NumCell(20000), "debit", "Shopping") >>)

OneMonthFile ==
    CsvFile("one_month.csv", TRUE, CsvHeader,
            << Record(SeriesDate(2), NumCell(15000), "debit", "Groceries") >>)

HeaderOnlyFile == CsvFile("header_only.csv", TRUE, <<"date", "amount">>, <<>>)

NotUtf8File == CsvFile("latin1.csv", FALSE, CsvHeader, <<>>)

ZeroBytesFile == CsvFile("zero_bytes.csv", TRUE, <<>>, <<>>)

Uploads == { TwoMonthsFile, OneMonthFile, HeaderOnlyFile, NotUtf8File, ZeroBytesFile }

\* pd.read_csv(StringIO(content.decode("utf-8")))
decode_and_read_csv(file) ==
    IF ~file.utf8
    THEN Fail("UnicodeDecodeError", "'utf-8' codec can't decode byte 0xe9 in position 0: invalid continuation byte")
    ELSE IF file.columns = <<>>
    THEN Fail("EmptyDataError", "No columns to parse from file")
    ELSE Value(read_csv(file.columns, file.records))

\* df.to_dict(orient="records")
to_dict_records(frame) == frame.rows

HasError(body) == "error" \in DOMAIN body

(***************************************************************************)
(* llm_client.py.  The wrapped function is given by what its successive    *)
(* calls do (return a text or raise), random.random() by its successive    *)
(* readings.  The result of a wrapped call is [kind, msg, value, calls,    *)
(* sleeps]: the number of invocations made and the waits slept.            *)
(***************************************************************************)
Power2(i) == CASE i = 0 -> 1 [] i = 1 -> 2 [] i = 2 -> 4 [] i = 3 -> 8

Returned(value, calls, sleeps) ==
    [kind |-> "ok", msg |-> "", value |-> value, calls |-> calls, sleeps |-> sleeps]

Raised(kind, msg, calls, sleeps) ==
    [kind |-> kind, msg |-> msg, value |-> "", calls |-> calls, sleeps |-> sleeps]

RECURSIVE retry_from(_, _, _, _, _)
retry_from(i, attempts, func, randoms, sleeps) ==
    IF i = attempts
    THEN Raised("RuntimeError", "Failed after 3 retries.", i, sleeps)
    ELSE IF func[i + 1].kind = "ok"
    THEN Returned(func[i + 1].value, i + 1, sleeps)
    ELSE retry_from(i + 1, attempts, func, randoms,
                    Append(sleeps, 10 * Power2(i) + randoms[i + 1]))

\* variant: a fourth attempt is made
with_retries_four_attempts(func, randoms) == retry_from(0, 4, func, randoms, <<>>)

\* variant: the last result is returned whatever it is
with_retries_returning_last(func, randoms) ==
    LET r == retry_from(0, 3, func, randoms, <<>>)
    IN IF r.kind = "ok" THEN r ELSE Returned(func[3].value, r.calls, r.sleeps)

with_retries(func, randoms) == retry_from(0, 3, func, randoms, <<>>)

\* the environment of the process: LLM_PROVIDER, the SDKs that import, what
\* the provider's API does on its successive calls, and random.random()
Environment(provider, sdks, api, randoms) ==
    [provider |-> provider, sdks |-> sdks, api |-> api, randoms |-> randoms]

\* LLMClient.__init__
LLMClient(env) ==
    IF env.provider \in {"openai", "gemini", "claude"} /\ env.provider \in env.sdks
    THEN Value(env.provider)
    ELSE Fail("ValueError", "Unsupported or improperly configured provider: " \o env.provider)

\* LLMClient.generate, wrapped by with_retries
generate(env) == with_retries(env.api, env.randoms)

\* the texts a provider answers with, and what json.loads makes of the part
\* between the first "{" and the last "}"
InsightsText == "Here you go: {\"top_categories\": [], \"advice\": \"Save.\", \"summary\": \"Fine.\"}"
RefusalText == "{\"error\": \"I cannot analyse this.\"}"
ProseText == "You spend a lot on groceries."

Insights == [top_categories |-> <<>>, advice |-> "Save.", summary |-> "Fine."]

json_loads_object(raw_output) ==
    CASE raw_output = InsightsText -> Value(Insights)
      [] raw_output = RefusalText -> Value([error |-> "I cannot analyse this."])
      [] OTHER -> Fail("JSONDecodeError", "Expecting value: line 1 column 1 (char 0)")

\* json.dumps where json is the module imported at the top of the file
json_dumps_global(txns) == Value("prompt")

\* json.dumps in analyze_transactions_with_llm: the function contains an
\* "import json" statement (line 139), so json is a local name of the
\* function, and it is not bound when line 100 reads it
json_dumps(txns) ==
    Fail("UnboundLocalError", "cannot access local variable 'json' where it is not associated with a value")

analyze_transactions_with_llm(txns, env) ==
    LET prompt == json_dumps(txns)
        llm == LLMClient(env)
        raw_output == generate(env)
        parsed == json_loads_object(raw_output.value)
    IN IF prompt.kind # "ok" THEN Fail(prompt.kind, prompt.msg)
       ELSE IF llm.kind # "ok" THEN Fail(llm.kind, llm.msg)
       ELSE IF raw_output.kind # "ok" THEN Fail(raw_output.kind, raw_output.msg)
       ELSE IF parsed.kind = "ok" THEN parsed
       ELSE Value([error |-> "Failed to parse response", raw_output |-> raw_output.value])

(***************************************************************************)
(* routes/analyze.py.                                                      *)
(***************************************************************************)
Abs(x) == IF x < 0 THEN -x ELSE x

\* Series.idxmax(): the first key that carries the largest value
idxmax(series) ==
    LET i == CHOOSE i \in 1..Len(series) :
                 /\ \A j \in 1..Len(series) : series[j][2] <= series[i][2]
                 /\ \A j \in 1..(i - 1) : series[j][2] < series[i][2]
    IN series[i][1]

\* str(x) of the float x = cents / 100
float_str(cents) ==
    ToString(cents \div 100) \o "." \o
    (IF cents % 10 = 0 THEN ToString((cents % 100) \div 10) ELSE two_digits(cents % 100))

\* the local summary of lines 34-47
fallback_analysis(db) ==
    LET frame == [i \in 1..Len(db) |-> [db[i] EXCEPT !.amount = db[i].amount.val]]
        sums == groupby_sum(frame, "category")
        totals == [j \in 1..Len(sums) |-> <<sums[j][1], Abs(sums[j][2])>>]
        top_category == idxmax(totals)
        avg_spend == round2(SeqSum([i \in 1..Len(frame) |-> Abs(frame[i].amount)]), Len(frame))
    IN [status |-> "success",
        analysis_source |-> "Fallback",
        results |->
            [top_categories |-> << [category |-> top_category, total |-> avg_spend] >>,
             advice |-> "You spend most in '" \o top_category
                        \o "'. Try setting a weekly budget to cut "
                        \o top_category \o " costs.",
             summary |-> "Average spend per transaction is $" \o float_str(avg_spend) \o "."]]

\* variant: every failure of the LLM step leads to the local summary
analyze_transactions_always_fallback(db, env) ==
    LET llm_result == analyze_transactions_with_llm(db, env)
    IN IF db = <<>> THEN [error |-> "No transactions found."]
       ELSE IF llm_result.kind = "ok" /\ ~HasError(llm_result.value)
       THEN [status |-> "success", analysis_source |-> "LLM", results |-> llm_result.value]
       ELSE fallback_analysis(db)

\* variant: the LLM is asked before the store is looked at
analyze_transactions_unchecked(db, env) ==
    LET llm_result == analyze_transactions_with_llm(db, env)
    IN IF llm_result.kind # "ok" THEN [error |-> "Analysis failed: " \o llm_result.msg]
       ELSE IF db = <<>> THEN [error |-> "No transactions found."]
       ELSE fallback_analysis(db)

analyze_transactions(db, env) ==
    LET llm_result == analyze_transactions_with_llm(db, env)
    IN IF db = <<>> THEN [error |-> "No transactions found."]
       ELSE IF llm_result.kind # "ok" THEN [error |-> "Analysis failed: " \o llm_result.msg]
       ELSE IF ~HasError(llm_result.value)
       THEN [status |-> "success", analysis_source |-> "LLM", results |-> llm_result.value]
       ELSE fallback_analysis(db)

(***************************************************************************)
(* routes/forecast.py, from the construction of the frame on.              *)
(***************************************************************************)
\* variant: a failure of the forecast leaves the handler as an exception
forecast_of_store_raising(db, method) ==
    LET result == get_forecast(DataFrame(db), method)
    IN IF result.kind # "ok" THEN [raised |-> result.kind, msg |-> result.msg]
       ELSE [status |-> "success", method |-> method,
             predicted_next_month_amount |-> result.predicted_next_month_amount,
             historical_months |-> result.historical_months,
             historical_amounts |-> result.historical_amounts]

forecast_of_store(db, method) ==
    LET result == get_forecast(DataFrame(db), method)
    IN IF result.kind # "ok" THEN [error |-> "Forecasting failed: " \o result.msg]
       ELSE [status |-> "success", method |-> method,
             predicted_next_month_amount |-> result.predicted_next_month_amount,
             historical_months |-> result.historical_months,
             historical_amounts |-> result.historical_amounts]

(***************************************************************************)
(* The states of the handlers and of the frontend session.                 *)
(***************************************************************************)
NotUploading == [busy |-> FALSE, file |-> "", records |-> <<>>]
NotForecasting == [busy |-> FALSE, method |-> ""]
NotListing == [busy |-> FALSE, total |-> 0, skip |-> 0, limit |-> 0]
NoResponse == [endpoint |-> "none", request |-> "", body |-> [status |-> "none"]]
Response(endpoint, request, body) == [endpoint |-> endpoint, request |-> request, body |-> body]

ServiceStarted ==
    /\ transactions_db = <<>>
    /\ uploading = NotUploading
    /\ forecasting = NotForecasting
    /\ listing = NotListing
    /\ response = NoResponse

NotCalled == [func |-> <<>>, randoms |-> <<>>, result |-> Raised("none", "", 0, <<>>)]

\* st.cache_data(ttl=600): an entry is kept for 600 seconds; time is
\* counted in steps of 300 seconds
CacheTtl == 600
TickSeconds == 300
NoEntry == [cached |-> FALSE, age |-> 0, value |-> [status |-> "none"]]
Entry(value) == [cached |-> TRUE, age |-> 0, value |-> value]
PageMethods == { "rolling", "linear" }
NotShown == [method |-> "", data |-> [status |-> "none"]]
NoHash == ""

SessionStarted ==
    /\ session_state = [uploaded |-> FALSE, last_file_hash |-> NoHash, waiting |-> ""]
    /\ cache = [m \in PageMethods |-> NoEntry]
    /\ shown = NotShown

(***************************************************************************)
(* State machine: a frame is handed to the module and its functions are    *)
(* called on it.  monthly is the frame returned by the last                *)
(* prepare_monthly_data(df); out records the last forecast call.           *)
(***************************************************************************)
NotPrepared == [kind |-> "none", msg |-> "", buckets |-> <<>>]

NoCall ==
    [op |-> "none", method |-> "", window |-> 0, kind |-> "none", msg |-> "",
     value |-> 0, historical_months |-> <<>>, historical_amounts |-> <<>>]

AlgoCall(op, window, r) ==
    [op |-> op, method |-> "", window |-> window, kind |-> r.kind, msg |-> r.msg,
     value |-> r.value, historical_months |-> <<>>, historical_amounts |-> <<>>]

TopCall(method, r) ==
    [op |-> "get_forecast", method |-> method, window |-> 0, kind |-> r.kind,
     msg |-> r.msg, value |-> r.predicted_next_month_amount,
     historical_months |-> r.historical_months,
     historical_amounts |-> r.historical_amounts]

Init ==
    /\ df \in Frames
    /\ monthly = NotPrepared
    /\ out = NoCall
    /\ transactions = <<>>
    /\ self_df = <<>>
    /\ report = NoReport
    /\ data = to_dict(NoTransaction)
    /\ loaded = NotLoaded
    /\ ServiceStarted /\ called = NotCalled /\ SessionStarted

PrepareMonthlyData ==
    /\ monthly' = prepare_monthly_data(df)
    /\ UNCHANGED <<df, out, transactions, self_df, report, data, loaded, service, called, session>>

ForecastRollingTrend ==
    /\ monthly.kind = "ok"
    /\ \E window \in 1..MaxWindow :
          out' = AlgoCall("forecast_rolling_trend", window,
                          forecast_rolling_trend(monthly.buckets, window))
    /\ UNCHANGED <<df, monthly, transactions, self_df, report, data, loaded, service, called, session>>

ForecastLinearRegression ==
    /\ monthly.kind = "ok"
    /\ out' = AlgoCall("forecast_linear_regression", 0,
                       forecast_linear_regression(monthly.buckets))
    /\ UNCHANGED <<df, monthly, transactions, self_df, report, data, loaded, service, called, session>>

GetForecast ==
    /\ \E method \in Methods : out' = TopCall(method, get_forecast(df, method))
    /\ UNCHANGED <<df, monthly, transactions, self_df, report, data, loaded, service, called, session>>

\* batches of arbitrary records through the aggregation and get_forecast
Next ==
    \/ PrepareMonthlyData
    \/ GetForecast

Spec == Init /\ [][Next]_vars

\* monthly series through the two algorithms
InitSeries ==
    /\ df \in SeriesFrames
    /\ monthly = NotPrepared
    /\ out = NoCall
    /\ transactions = <<>>
    /\ self_df = <<>>
    /\ report = NoReport
    /\ data = to_dict(NoTransaction)
    /\ loaded = NotLoaded
    /\ ServiceStarted /\ called = NotCalled /\ SessionStarted

NextSeries ==
    \/ PrepareMonthlyData
    \/ ForecastRollingTrend
    \/ ForecastLinearRegression
    \/ GetForecast

SpecSeries == InitSeries /\ [][NextSeries]_vars

(***************************************************************************)
(* State machine of the finance_copilot package: an analyzer or a          *)
(* forecaster is constructed over a list of transactions and its methods   *)
(* are called; each call reads the clock itself.                           *)
(***************************************************************************)
GetTotalSpent ==
    \E days \in DaysArgs, now \in Clock :
        /\ report' = Report("get_total_spent", days, now, 0,
                            get_total_spent(self_df, days, now), <<>>, NoStat, <<>>)
        /\ UNCHANGED <<df, monthly, out, transactions, self_df, data, loaded, service, called, session>>

GetTotalIncome ==
    \E days \in DaysArgs, now \in Clock :
        /\ report' = Report("get_total_income", days, now, 0,
                            get_total_income(self_df, days, now), <<>>, NoStat, <<>>)
        /\ UNCHANGED <<df, monthly, out, transactions, self_df, data, loaded, service, called, session>>

GetNetCashflow ==
    \E days \in DaysArgs, now \in Clock :
        /\ report' = Report("get_net_cashflow", days, now, 0,
                            get_net_cashflow(self_df, days, now), <<>>, NoStat, <<>>)
        /\ UNCHANGED <<df, monthly, out, transactions, self_df, data, loaded, service, called, session>>

GetSpendingByCategory ==
    \E days \in DaysArgs, now \in Clock :
        /\ report' = Report("get_spending_by_category", days, now, 0, 0,
                            get_spending_by_category(self_df, days, now), NoStat, <<>>)
        /\ UNCHANGED <<df, monthly, out, transactions, self_df, data, loaded, service, called, session>>

GetTopMerchants ==
    \E limit \in 1..MaxLimit, days \in DaysArgs, now \in Clock :
        \E top_merchants \in get_top_merchants(self_df, limit, days, now) :
            /\ report' = Report("get_top_merchants", days, now, limit, 0,
                                top_merchants, NoStat, <<>>)
            /\ UNCHANGED <<df, monthly, out, transactions, self_df, data, loaded, service, called, session>>

GetSpendingVelocity ==
    \E window_days \in DayWindows, now \in Clock :
        /\ report' = Report("get_spending_velocity", AllHistory, now, window_days, 0, <<>>,
                            get_spending_velocity(self_df, window_days, now), <<>>)
        /\ UNCHANGED <<df, monthly, out, transactions, self_df, data, loaded, service, called, session>>

IdentifyRecurringExpenses ==
    \E tolerance_days \in Tolerances :
        /\ report' = Report("identify_recurring_expenses", AllHistory, 0, tolerance_days, 0,
                            <<>>, NoStat,
                            identify_recurring_expenses(self_df, tolerance_days))
        /\ UNCHANGED <<df, monthly, out, transactions, self_df, data, loaded, service, called, session>>

InitAnalyzer ==
    /\ df = DataFrame(<<>>)
    /\ monthly = NotPrepared
    /\ out = NoCall
    /\ transactions \in SeqsUpTo(AnalyzerTransactions, MaxTxns)
    /\ self_df = to_dataframe(transactions)
    /\ report = NoReport
    /\ data = to_dict(NoTransaction)
    /\ loaded = NotLoaded
    /\ ServiceStarted /\ called = NotCalled /\ SessionStarted

NextAnalyzer ==
    \/ GetTotalSpent
    \/ GetTotalIncome
    \/ GetNetCashflow
    \/ GetSpendingByCategory
    \/ GetTopMerchants

SpecAnalyzer == InitAnalyzer /\ [][NextAnalyzer]_vars

InitForecaster ==
    /\ df = DataFrame(<<>>)
    /\ monthly = NotPrepared
    /\ out = NoCall
    /\ transactions \in SeqsUpTo(ForecasterTransactions, MaxTxns)
    /\ self_df = to_dataframe(transactions)
    /\ report = NoReport
    /\ data = to_dict(NoTransaction)
    /\ loaded = NotLoaded
    /\ ServiceStarted /\ called = NotCalled /\ SessionStarted

NextForecaster ==
    \/ GetSpendingVelocity
    \/ IdentifyRecurringExpenses

SpecForecaster == InitForecaster /\ [][NextForecaster]_vars

(***************************************************************************)
(* State machine of transaction.py: a Transaction is held, a mapping has   *)
(* been received from outside; to_dict writes the mapping of the held      *)
(* Transaction, from_dict is called on the mapping at hand.                *)
(***************************************************************************)
ToDict ==
    /\ data' = to_dict(transactions[1])
    /\ UNCHANGED <<df, monthly, out, transactions, self_df, report, loaded, service, called, session>>

FromDict ==
    /\ loaded' = Call(data, from_dict(data))
    /\ UNCHANGED <<df, monthly, out, transactions, self_df, report, data, service, called, session>>

InitTransaction ==
    /\ df = DataFrame(<<>>)
    /\ monthly = NotPrepared
    /\ out = NoCall
    /\ transactions \in [1..1 -> SerialTransactions]
    /\ self_df = <<>>
    /\ report = NoReport
    /\ \E defect \in Defects, absent \in SUBSET Keys :
           /\ Cardinality(absent) <= 1
           /\ data = Damaged([k \in Keys \ absent |-> TestMapping[k]], defect)
    /\ loaded = NotLoaded
    /\ ServiceStarted /\ called = NotCalled /\ SessionStarted

NextTransaction ==
    \/ ToDict
    \/ FromDict

SpecTransaction == InitTransaction /\ [][NextTransaction]_vars

(***************************************************************************)
(* State machine of the backend.  The upload and analyze handlers are      *)
(* coroutines of the event loop: between transactions_db.clear() and       *)
(* transactions_db.extend(records) no other coroutine runs.  The forecast  *)
(* and transactions handlers are plain functions, which FastAPI runs in    *)
(* worker threads: each of their reads of transactions_db is a step of its *)
(* own, and the event loop may run between two of them.                    *)
(***************************************************************************)
IdleCore ==
    /\ df = DataFrame(<<>>)
    /\ monthly = NotPrepared
    /\ out = NoCall
    /\ transactions = <<>>
    /\ self_df = <<>>
    /\ report = NoReport
    /\ data = to_dict(NoTransaction)
    /\ loaded = NotLoaded

\* variant: the store is not cleared, the new records are appended
upload_transactions_begin_appending(file) ==
    LET parsed == decode_and_read_csv(file)
    IN /\ ~uploading.busy
       /\ IF parsed.kind # "ok"
          THEN /\ response' = Response("upload", file.name,
                                       [error |-> "Failed to process file: " \o parsed.msg])
               /\ UNCHANGED <<transactions_db, uploading>>
          ELSE /\ uploading' = [busy |-> TRUE, file |-> file.name,
                                records |-> to_dict_records(parsed.value)]
               /\ UNCHANGED <<transactions_db, response>>

\* variant: the store is cleared before the file is read
upload_transactions_begin_clearing_first(file) ==
    LET parsed == decode_and_read_csv(file)
    IN /\ ~uploading.busy
       /\ IF parsed.kind # "ok"
          THEN /\ response' = Response("upload", file.name,
                                       [error |-> "Failed to process file: " \o parsed.msg])
               /\ transactions_db' = <<>>
               /\ UNCHANGED uploading
          ELSE /\ transactions_db' = <<>>
               /\ uploading' = [busy |-> TRUE, file |-> file.name,
                                records |-> to_dict_records(parsed.value)]
               /\ UNCHANGED response

\* upload_transactions up to transactions_db.clear()
upload_transactions_begin(file) ==
    LET parsed == decode_and_read_csv(file)
    IN /\ ~uploading.busy
       /\ IF parsed.kind # "ok"
          THEN /\ response' = Response("upload", file.name,
                                       [error |-> "Failed to process file: " \o parsed.msg])
               /\ UNCHANGED <<transactions_db, uploading>>
          ELSE /\ transactions_db' = <<>>
               /\ uploading' = [busy |-> TRUE, file |-> file.name,
                                records |-> to_dict_records(parsed.value)]
               /\ UNCHANGED response

Upload ==
    /\ \E file \in Uploads : upload_transactions_begin(file)
    /\ UNCHANGED <<core, forecasting, listing, called, session>>

\* transactions_db.extend(records) and the return
UploadExtend ==
    /\ uploading.busy
    /\ transactions_db' = transactions_db \o uploading.records
    /\ response' = Response("upload", uploading.file,
                            [status |-> "success", rows_uploaded |-> Len(uploading.records)])
    /\ uploading' = NotUploading
    /\ UNCHANGED <<core, forecasting, listing, called, session>>

\* get_forecast_endpoint up to the test of the store
get_forecast_endpoint_begin(method) ==
    /\ ~forecasting.busy
    /\ IF transactions_db = <<>>
       THEN /\ response' = Response("forecast", method, [error |-> "No transactions found."])
            /\ UNCHANGED forecasting
       ELSE /\ forecasting' = [busy |-> TRUE, method |-> method]
            /\ UNCHANGED response

Forecast ==
    /\ \E method \in Methods : get_forecast_endpoint_begin(method)
    /\ UNCHANGED <<core, transactions_db, uploading, listing, called, session>>

\* pd.DataFrame(transactions_db), the forecast and the return
ForecastCompute ==
    /\ forecasting.busy
    /\ response' = Response("forecast", forecasting.method,
                            forecast_of_store(transactions_db, forecasting.method))
    /\ forecasting' = NotForecasting
    /\ UNCHANGED <<core, transactions_db, uploading, listing, called, session>>

\* get_transactions: len(transactions_db)
ListTransactions ==
    /\ ~listing.busy
    /\ \E skip \in 0..MaxSkip, limit \in 1..MaxPage :
           listing' = [busy |-> TRUE, total |-> Len(transactions_db),
                       skip |-> skip, limit |-> limit]
    /\ UNCHANGED <<core, transactions_db, uploading, forecasting, response, called, session>>

\* a[skip : skip + limit]
slice(a, skip, limit) == SubSeq(a, skip + 1, Min(Len(a), skip + limit))

\* get_transactions: transactions_db[skip: skip + limit] and the return
ListSlice ==
    /\ listing.busy
    /\ response' = Response("transactions",
                            "skip=" \o ToString(listing.skip) \o "&limit=" \o ToString(listing.limit),
                            [total |-> listing.total,
                             transactions |-> slice(transactions_db, listing.skip, listing.limit)])
    /\ listing' = NotListing
    /\ UNCHANGED <<core, transactions_db, uploading, forecasting, called, session>>

\* what the provider does on a call, and the environments of the process
ApiOutcomes ==
    { Value(InsightsText), Value(RefusalText), Value(ProseText),
      Fail("TimeoutError", "The read operation timed out") }

ApiScripts ==
    { [k \in 1..4 |-> o] : o \in ApiOutcomes }
    \cup { [k \in 1..4 |-> IF k = 3 THEN Value(InsightsText)
                           ELSE Fail("ResourceExhausted", "429 Quota exceeded")] }

Environments ==
    { Environment(provider, sdks, api, <<0, 5, 9, 0>>) :
          provider \in {"gemini", "mistral"}, sdks \in {{}, {"gemini"}}, api \in ApiScripts }

Analyze ==
    /\ ~uploading.busy
    /\ \E env \in Environments :
           response' = Response("analyze", "", analyze_transactions(transactions_db, env))
    /\ UNCHANGED <<core, transactions_db, uploading, forecasting, listing, called, session>>

InitBackend ==
    /\ IdleCore
    /\ ServiceStarted /\ called = NotCalled /\ SessionStarted

NextBackend ==
    \/ Upload
    \/ UploadExtend
    \/ Forecast
    \/ ForecastCompute
    \/ ListTransactions
    \/ ListSlice
    \/ Analyze

SpecBackend == InitBackend /\ [][NextBackend]_vars

(***************************************************************************)
(* State machine of with_retries: a wrapped function is called.            *)
(***************************************************************************)
CallOutcomes ==
    { Value("first answer"), Value("second answer"),
      Fail("TimeoutError", "The read operation timed out") }

Randoms == { 0, 9 }

CallWrapped ==
    /\ \E func \in [1..4 -> CallOutcomes], randoms \in [1..4 -> Randoms] :
           called' = [func |-> func, randoms |-> randoms,
                      result |-> with_retries(func, randoms)]
    /\ UNCHANGED <<core, service, session>>

InitRetries ==
    /\ IdleCore
    /\ ServiceStarted /\ called = NotCalled /\ SessionStarted

NextRetries == CallWrapped

SpecRetries == InitRetries /\ [][NextRetries]_vars

(***************************************************************************)
(* State machine of the frontend session on top of the backend: the        *)
(* session is the only client, and each of its requests is waited for.     *)
(***************************************************************************)
\* hashlib.md5(uploaded_file.getvalue()).hexdigest(): the files differ in
\* their bytes, so each has a digest of its own
md5(file) == "md5 of " \o file.name

SessionFree == ~uploading.busy /\ ~forecasting.busy /\ session_state.waiting = ""

\* the Upload CSV page with a file chosen
PageUpload ==
    /\ SessionFree
    /\ shown' = NotShown
    /\ \E file \in Uploads :
           LET file_hash == md5(file)
               parsed == decode_and_read_csv(file)
               sent == /\ parsed.kind = "ok"
                       /\ \A c \in {"date", "amount", "category"} :
                              InColumns(c, parsed.value.columns)
                       /\ InColumns("description", parsed.value.columns)
           IN IF session_state.last_file_hash = file_hash
              THEN /\ session_state' = [session_state EXCEPT !.uploaded = TRUE]
                   /\ UNCHANGED <<transactions_db, uploading, response>>
              ELSE IF ~sent
              THEN /\ session_state' = [session_state EXCEPT !.last_file_hash = file_hash]
                   /\ UNCHANGED <<transactions_db, uploading, response>>
              ELSE /\ session_state' = [session_state EXCEPT !.last_file_hash = file_hash,
                                                             !.uploaded = TRUE]
                   /\ upload_transactions_begin(file)
    /\ UNCHANGED <<core, forecasting, listing, called, cache>>

\* the Forecast page, "Run Forecast" pressed: cached_forecast(method)
PageForecast ==
    /\ SessionFree
    /\ session_state.uploaded
    /\ \E method \in PageMethods :
           IF cache[method].cached
           THEN /\ shown' = [method |-> method, data |-> cache[method].value]
                /\ UNCHANGED <<session_state, forecasting, response>>
           ELSE /\ session_state' = [session_state EXCEPT !.waiting = method]
                /\ get_forecast_endpoint_begin(method)
                /\ UNCHANGED shown
    /\ UNCHANGED <<core, transactions_db, uploading, listing, called, cache>>

\* the response arrives: it is stored in the cache and displayed
PageForecastShow ==
    /\ session_state.waiting # ""
    /\ ~forecasting.busy
    /\ cache' = [cache EXCEPT ![session_state.waiting] = Entry(response.body)]
    /\ shown' = [method |-> session_state.waiting, data |-> response.body]
    /\ session_state' = [session_state EXCEPT !.waiting = ""]
    /\ UNCHANGED <<core, service, called>>

\* TickSeconds pass: an entry that reaches the age of CacheTtl is dropped
Tick ==
    /\ \E m \in PageMethods : cache[m].cached
    /\ cache' = [m \in PageMethods |->
                    IF cache[m].cached /\ cache[m].age + TickSeconds < CacheTtl
                    THEN [cache[m] EXCEPT !.age = @ + TickSeconds]
                    ELSE NoEntry]
    /\ UNCHANGED <<core, service, called, session_state, shown>>

InitFrontend ==
    /\ IdleCore
    /\ ServiceStarted /\ called = NotCalled /\ SessionStarted

NextFrontend ==
    \/ PageUpload
    \/ UploadExtend
    \/ PageForecast
    \/ ForecastCompute
    \/ PageForecastShow
    \/ Tick

SpecFrontend == InitFrontend /\ [][NextFrontend]_vars

(***************************************************************************)
(* Vocabulary of the properties.                                           *)
(***************************************************************************)
\* a record is usable when its date names a calendar day and its amount is a number
Usable(r) == ~to_datetime(r.date).nat /\ r.amount.numeric

MonthOf(r) == <<r.date[1], r.date[2]>>

Earlier(m1, m2) == m1[1] < m2[1] \/ (m1[1] = m2[1] /\ m1[2] < m2[2])

HasColumns(frame) == InColumns("date", frame.columns) /\ amount_col(frame.columns) # ""

\* the sum of the amounts of the usable records of one month that satisfy Keep
MonthTotal(rows, ym, Keep(_)) ==
    SeqSum([i \in 1..Len(rows) |->
              IF Usable(rows[i]) /\ MonthOf(rows[i]) = ym /\ Keep(rows[i])
              THEN rows[i].amount.val ELSE 0])

IsDebit(r) == r.type = "debit"
AnyType(r) == TRUE

Permute(rows, p) == [i \in 1..Len(rows) |-> rows[p[i]]]

Aggregated == monthly.kind = "ok"
Called(op) == out.op = op

(***************************************************************************)
(* C1: get_forecast aggregates under the debit-magnitude policy: every     *)
(* historical monthly total is the sum of the DEBIT records of that month  *)
(* only, so CREDIT records never change historical_amounts.                *)
(* The code sums every record of the month, so this is violated.           *)
(***************************************************************************)
C1_DebitOnlyTotals ==
    (Called("get_forecast") /\ out.kind = "ok") =>
        /\ out.historical_amounts =
              get_forecast([df EXCEPT !.rows = SelectSeq(df.rows, IsDebit)],
                           out.method).historical_amounts
        /\ \A i \in 1..Len(out.historical_amounts) :
              \E r \in { df.rows[j] : j \in 1..Len(df.rows) } :
                 /\ Usable(r)
                 /\ strftime_Ym(<<r.date[1], r.date[2], 1>>) = out.historical_months[i]
                 /\ out.historical_amounts[i] = MonthTotal(df.rows, MonthOf(r), IsDebit)

C3_BucketsChronological ==
    Aggregated =>
        LET b == monthly.buckets
        IN /\ \A i \in 1..(Len(b) - 1) : Earlier(b[i].month, b[i + 1].month)
           /\ { <<b[i].month[1], b[i].month[2]>> : i \in 1..Len(b) }
                 = { MonthOf(df.rows[j]) : j \in { k \in 1..Len(df.rows) : Usable(df.rows[k]) } }
           /\ \A i \in 1..Len(b) : b[i].month[3] = 1 /\ b[i].month_idx = i - 1

\* December 2023 and March 2024 observed, given latest first: two buckets,
\* nothing for January and February
C3_Witness ==
    /\ Aggregated
    /\ Len(df.rows) >= 2
    /\ MonthOf(df.rows[1]) = <<2024, 3>>
    /\ Len(monthly.buckets) = 2
    /\ monthly.buckets[1].month = <<2023, 12, 1>> /\ monthly.buckets[1].month_idx = 0
    /\ monthly.buckets[2].month = <<2024, 3, 1>> /\ monthly.buckets[2].month_idx = 1

C5_RollingFailsIffEmpty ==
    Called("forecast_rolling_trend") =>
        /\ (monthly.buckets = <<>>) =
              (out.kind = "ValueError" /\ out.msg = "No data available for forecasting.")
        /\ (monthly.buckets # <<>>) = (out.kind = "ok")

\* the rolling forecast was asked for an aggregation without any bucket
C5_Witness ==
    /\ Called("forecast_rolling_trend")
    /\ Aggregated /\ monthly.buckets = <<>>
    /\ out.kind = "ValueError"

(***************************************************************************)
(* C6: for a series of exactly one bucket of total v the rolling-trend     *)
(* forecast is exactly v, whatever the window size (>= 1).                 *)
(***************************************************************************)
C6_SingleBucketIsItsValue ==
    (Called("forecast_rolling_trend") /\ Len(monthly.buckets) = 1) =>
        out.kind = "ok" /\ out.value = monthly.buckets[1].amount

\* one bucket of 100.00 forecast with a window other than the default
C6_Witness ==
    /\ Called("forecast_rolling_trend")
    /\ Len(monthly.buckets) = 1
    /\ monthly.buckets[1].amount = 10000
    /\ out.window = 2
    /\ out.value = 10000

(***************************************************************************)
(* C7 as stated: for the monthly totals [100, 150, 200] the rolling-trend  *)
(* forecast (window 3) is strictly greater than 200.                       *)
(***************************************************************************)
Totals_100_150_200 ==
    /\ Called("forecast_rolling_trend")
    /\ out.window = 3
    /\ amounts_of(monthly.buckets) = <<10000, 15000, 20000>>

C7_ForecastExceeds200 == Totals_100_150_200 => (out.kind = "ok" /\ out.value > 20000)

(***************************************************************************)
(* C7 amended: for the monthly totals [100, 150, 200] the rolling-trend    *)
(* forecast (window 3) is strictly greater than the three-month average    *)
(* 150 (the positive trend is added to it) but does not exceed 200.        *)
(***************************************************************************)
C7_ForecastAboveAverageAtMost200 ==
    Totals_100_150_200 => (out.kind = "ok" /\ out.value > 15000 /\ out.value <= 20000)

C7_Witness == Totals_100_150_200 /\ out.kind = "ok"

(***************************************************************************)
(* C8: for n >= 1 totals the rolling-trend forecast is the mean of the     *)
(* last min(window, n) totals plus the mean of the n-1 first differences   *)
(* (0 when n = 1), i.e. the sum of the differences divided by their        *)
(* number, rounded to 2 decimals.                                          *)
(* The code divides the sum of the differences by n, so this is violated.  *)
(***************************************************************************)
C8_TrendIsMeanOfDifferences ==
    (Called("forecast_rolling_trend") /\ monthly.buckets # <<>>) =>
        LET y == amounts_of(monthly.buckets)
            n == Len(y)
            k == Min(out.window, n)
            lastk == SeqSum([i \in 1..k |-> y[n - k + i]])
            diffs == [i \in 1..(n - 1) |-> y[i + 1] - y[i]]
        IN /\ out.kind = "ok"
           /\ out.value = IF n = 1 THEN round2(lastk, k)
                          ELSE round2(lastk * (n - 1) + SeqSum(diffs) * k, k * (n - 1))

(***************************************************************************)
(* C9: forecast_linear_regression fails with the insufficient-data error   *)
(* exactly when fewer than 2 buckets are given, and returns a number for   *)
(* every sequence of 2 or more buckets.                                    *)
(***************************************************************************)
C9_LinearFailsIffFewerThanTwo ==
    Called("forecast_linear_regression") =>
        /\ (Len(monthly.buckets) < 2) =
              (/\ out.kind = "ValueError"
               /\ out.msg = "Need at least 2 months of data for linear regression.")
        /\ (Len(monthly.buckets) >= 2) = (out.kind = "ok")

\* both sides of the threshold are met: this state has exactly one bucket
C9_Witness ==
    /\ Called("forecast_linear_regression")
    /\ Len(monthly.buckets) = 1
    /\ out.kind = "ValueError"

(***************************************************************************)
(* C10: forecast_linear_regression returns the least-squares line through  *)
(* the (index, total) pairs evaluated at last_index + 1, rounded to 2      *)
(* decimals and not clamped at zero: two buckets [y0, y1] give 2*y1 - y0   *)
(* ([100, 200] gives 300.00), an exactly linear series is extrapolated     *)
(* exactly, and [200, 50] gives -100.00.                                   *)
(***************************************************************************)
C10_LinearIsLeastSquaresLine ==
    (Called("forecast_linear_regression") /\ Len(monthly.buckets) >= 2) =>
        LET y == amounts_of(monthly.buckets)
            n == Len(y)
            \* normal equations of amount = a*index + b over the indexes 0..n-1:
            \* a = (n*Sxy - Sx*Sy) / (n*Sxx - Sx*Sx), b = (Sy - a*Sx) / n
            Sx == SeqSum([i \in 1..n |-> i - 1])
            Sy == SeqSum(y)
            Sxy == SeqSum([i \in 1..n |-> (i - 1) * y[i]])
            Sxx == SeqSum([i \in 1..n |-> (i - 1) * (i - 1)])
            aNum == n * Sxy - Sx * Sy
            aDen == n * Sxx - Sx * Sx
            \* a*n + b = (a*(n*n - Sx) + Sy) / n
            atNext == round2(aNum * (n * n - Sx) + Sy * aDen, n * aDen)
        IN /\ out.kind = "ok"
           /\ out.value = atNext
           /\ n = 2 => out.value = 2 * y[2] - y[1]
           /\ (\A i \in 2..(n - 1) : y[i + 1] - y[i] = y[2] - y[1])
                 => out.value = y[n] + (y[2] - y[1])
           /\ y = <<10000, 20000>> => out.value = 30000
           /\ y = <<20000, 5000>> => out.value = -10000

\* a decreasing series whose line crosses zero: the forecast is negative
C10_Witness ==
    /\ Called("forecast_linear_regression")
    /\ amounts_of(monthly.buckets) = <<20000, 5000>>
    /\ out.value = -10000

\* an exactly linear series of three months
C10_WitnessLinearSeries ==
    /\ Called("forecast_linear_regression")
    /\ amounts_of(monthly.buckets) = <<5000, 10000, 15000>>
    /\ out.value = 20000

(***************************************************************************)
(* Vocabulary of the get_forecast errors: the three messages raised by     *)
(* prepare_monthly_data, the algorithms and the method dispatch.           *)
(***************************************************************************)
MsgNoDate == "Missing 'date' column in transactions data."
MsgNoAmount == "No 'amount' column found."
MsgNoData == "No data available for forecasting."
MsgTooFew == "Need at least 2 months of data for linear regression."
MsgBadMethod == "Invalid method. Choose 'rolling' or 'linear'."

KnownMethod(m) == m \in {"rolling", "linear"}

UsableRows(frame) == SelectSeq(frame.rows, Usable)

UsableMonths(frame) == { MonthOf(frame.rows[j]) : j \in { k \in 1..Len(frame.rows) : Usable(frame.rows[k]) } }

(***************************************************************************)
(* C11: for every record batch (valid, empty, or with all rows invalid),   *)
(* get_forecast with a method other than 'rolling' or 'linear' fails with  *)
(* the invalid-argument error ("Invalid method ..."); no aggregation or    *)
(* insufficient-data error pre-empts it.                                   *)
(* The code aggregates first, so the empty batch fails on its columns.     *)
(***************************************************************************)
C11_UnknownMethodAlwaysInvalidArgument ==
    (Called("get_forecast") /\ ~KnownMethod(out.method)) =>
        (out.kind = "ValueError" /\ out.msg = MsgBadMethod)

(***************************************************************************)
(* C12: get_forecast on an empty batch fails with the missing-field error  *)
(* (the batch has no 'date' field) for either method, and for a batch with *)
(* zero usable records it never returns a numeric forecast.                *)
(***************************************************************************)
C12_NoForecastWithoutData ==
    Called("get_forecast") =>
        /\ (df = DataFrame(<<>>)) => (out.kind = "ValueError" /\ out.msg = MsgNoDate)
        /\ (UsableRows(df) = <<>>) =>
              (/\ out.kind # "ok"
               /\ out.value = 0
               /\ out.historical_amounts = <<>>)

\* the rolling forecast was asked for a batch whose only records are unusable
C12_Witness ==
    /\ Called("get_forecast")
    /\ out.method = "rolling"
    /\ df.rows # <<>>
    /\ UsableRows(df) = <<>>
    /\ out.kind = "ValueError"

\* the linear forecast was asked for the empty batch
C12_WitnessEmpty ==
    /\ Called("get_forecast")
    /\ out.method = "linear"
    /\ df = DataFrame(<<>>)
    /\ out.msg = MsgNoDate

(***************************************************************************)
(* C13 as stated: when a non-empty batch has the date and amount columns   *)
(* but every record is unusable, the aggregation step itself fails with    *)
(* the missing-field error instead of returning an empty bucket sequence.  *)
(***************************************************************************)
AllRowsUnusable == df.rows # <<>> /\ HasColumns(df) /\ UsableRows(df) = <<>>

C13_AggregationFailsOnAllInvalid ==
    (monthly.kind # "none" /\ AllRowsUnusable) => monthly.kind = "ValueError"

(***************************************************************************)
(* C13 amended: for such a batch the aggregation step does not fail, it    *)
(* returns an empty bucket sequence; get_forecast still fails, the error   *)
(* being raised afterwards by the selected algorithm (or by the method     *)
(* dispatch).                                                              *)
(***************************************************************************)
C13_AllInvalidGivesEmptyBuckets ==
    AllRowsUnusable =>
        /\ (monthly.kind # "none") => (monthly.kind = "ok" /\ monthly.buckets = <<>>)
        /\ Called("get_forecast") =>
              /\ out.kind = "ValueError"
              /\ out.msg = (IF out.method = "rolling" THEN MsgNoData
                            ELSE IF out.method = "linear" THEN MsgTooFew
                            ELSE MsgBadMethod)

\* the aggregation of a batch of unusable records, followed by get_forecast
C13_Witness ==
    /\ AllRowsUnusable
    /\ monthly.kind = "ok"
    /\ Called("get_forecast") /\ out.msg = MsgNoData

(***************************************************************************)
(* C14: every successful get_forecast result has historical_months and     *)
(* historical_amounts of equal length; historical_months holds distinct    *)
(* 'YYYY-MM' labels in strictly ascending order, one per usable month, and *)
(* historical_amounts[i] is the total of the month historical_months[i].   *)
(***************************************************************************)
MonthText(m) ==
    CASE m = 1 -> "01" [] m = 2 -> "02" [] m = 3 -> "03" [] m = 4 -> "04"
      [] m = 5 -> "05" [] m = 6 -> "06" [] m = 7 -> "07" [] m = 8 -> "08"
      [] m = 9 -> "09" [] m = 10 -> "10" [] m = 11 -> "11" [] m = 12 -> "12"

YearText(y) == CASE y = 2023 -> "2023" [] y = 2024 -> "2024" [] y = 2025 -> "2025"

LabelOf(ym) == YearText(ym[1]) \o "-" \o MonthText(ym[2])

C14_HistoryIsParallelAndOrdered ==
    (Called("get_forecast") /\ out.kind = "ok") =>
        LET hm == out.historical_months
            ha == out.historical_amounts
            months == UsableMonths(df)
        IN /\ Len(hm) = Len(ha)
           /\ Len(hm) = Cardinality(months)
           /\ \A i \in 1..Len(hm) :
                 \E ym \in months :
                    /\ hm[i] = LabelOf(ym)
                    /\ ha[i] = MonthTotal(df.rows, ym, AnyType)
                    /\ \A j \in (i + 1)..Len(hm) :
                          \E later \in months : hm[j] = LabelOf(later) /\ Earlier(ym, later)

\* a history over the year boundary, given latest month first
C14_Witness ==
    /\ Called("get_forecast") /\ out.kind = "ok"
    /\ Len(df.rows) >= 2 /\ MonthOf(df.rows[1]) = <<2024, 1>>
    /\ out.historical_months = <<"2023-12", "2024-01">>

(***************************************************************************)
(* C15 as stated: the failures of get_forecast are distinguishable by      *)
(* error kind: 'no usable data', 'not enough history' and 'unknown method' *)
(* have different kinds, whatever the message text.                        *)
(***************************************************************************)
Cause(frame, method) ==
    IF ~HasColumns(frame) \/ UsableRows(frame) = <<>> THEN "no usable data"
    ELSE IF ~KnownMethod(method) THEN "unknown method"
    ELSE "not enough history"

OneMonth == DataFrame(<<Row(<<2024, 1, 31>>, NumCell(10000), "debit")>>)

\* one failing call of each cause
ReferenceFailures ==
    { [frame |-> DataFrame(<<>>), method |-> "rolling"],
      [frame |-> OneMonth, method |-> "linear"],
      [frame |-> OneMonth, method |-> "median"] }

InWindow(t, days, now) == days.all \/ t.date >= now - days.n

Counted(op) == report.op = op

\* the DEBIT transactions of the history inside the window of the last call
DebitsInWindow ==
    SelectSeq(transactions, LAMBDA t : t.type = "DEBIT" /\ InWindow(t, report.days, report.now))

ItemsTotal == SeqSum([i \in 1..Len(report.items) |-> report.items[i][2]])

\* C16: for the same days filter (and clock reading) the values of
\* get_spending_by_category add up to get_total_spent; every DEBIT record in
\* the window is counted under exactly one category key, and no key and no
\* amount comes from a CREDIT record.
C16_CategoriesSumToTotalSpent ==
    Counted("get_spending_by_category") =>
        /\ ItemsTotal = get_total_spent(to_dataframe(transactions), report.days, report.now)
        /\ ItemsTotal = SeqSum([i \in 1..Len(DebitsInWindow) |-> DebitsInWindow[i].amount.val])
        /\ \A i \in 1..Len(DebitsInWindow) :
               Cardinality({ k \in 1..Len(report.items) :
                   report.items[k][1] = TransactionCategory_value(DebitsInWindow[i].category) }) = 1
        /\ \A k \in 1..Len(report.items) :
               \E i \in 1..Len(DebitsInWindow) :
                   report.items[k][1] = TransactionCategory_value(DebitsInWindow[i].category)

\* a breakdown over two categories, under a days filter, of a history that
\* also holds a credit inside the window
C16_Witness ==
    /\ Counted("get_spending_by_category")
    /\ Len(report.items) >= 2
    /\ ~report.days.all
    /\ \E i \in 1..Len(transactions) :
           transactions[i].type = "CREDIT" /\ InWindow(transactions[i], report.days, report.now)

AnalyzerOps ==
    { "get_total_spent", "get_total_income", "get_net_cashflow",
      "get_spending_by_category", "get_top_merchants" }

NothingInWindow ==
    \A i \in 1..Len(transactions) : ~InWindow(transactions[i], report.days, report.now)

\* C17: on an empty history, or when the days window excludes every record,
\* get_total_spent, get_total_income and get_net_cashflow return 0.0,
\* get_spending_by_category returns an empty mapping and get_top_merchants an
\* empty list.
C17_EmptyDataGivesZeroDefaults ==
    (report.op \in AnalyzerOps /\ NothingInWindow) =>
        /\ report.number = 0
        /\ report.items = <<>>

\* a history of debits with merchants, all older than the window asked for
C17_Witness ==
    /\ Counted("get_top_merchants")
    /\ NothingInWindow
    /\ \E i \in 1..Len(transactions) :
           transactions[i].type = "DEBIT" /\ transactions[i].merchant # None

C17_WitnessEmpty ==
    /\ report.op \in AnalyzerOps
    /\ transactions = <<>>

\* the DEBIT transactions of the history from day `from` on and before `to`
TotalOf(ts) == SeqSum([i \in 1..Len(ts) |-> ts[i].amount.val])

DebitTotalBetween(from, to) ==
    TotalOf(SelectSeq(transactions,
                      LAMBDA t : t.type = "DEBIT" /\ t.date >= from /\ t.date < to))

PrecedingTotal ==
    DebitTotalBetween(report.now - 2 * report.arg, report.now - report.arg)

RecentTotal ==
    TotalOf(SelectSeq(transactions,
                      LAMBDA t : t.type = "DEBIT" /\ t.date >= report.now - report.arg))

\* C18: whenever the DEBIT total of the preceding window is zero,
\* get_spending_velocity returns velocity 0.0 and trend 'stable' whatever the
\* DEBIT total of the recent window is; the velocity is never a quotient by
\* zero.
C18_ZeroPrecedingWindowIsStable ==
    Counted("get_spending_velocity") =>
        /\ report.velocity.velocity[2] # 0
        /\ PrecedingTotal = 0 =>
               /\ report.velocity.velocity = <<0, 1>>
               /\ report.velocity.trend = "stable"

\* nothing spent in the preceding window, something spent in the recent one
C18_Witness ==
    /\ Counted("get_spending_velocity")
    /\ PrecedingTotal = 0
    /\ RecentTotal > 0
    /\ report.velocity.recent_spending = RecentTotal

\* the DEBIT transactions of the history carrying one exact description
GroupOf(d) == SelectSeq(transactions, LAMBDA t : t.type = "DEBIT" /\ t.description = d)

DebitDescriptions ==
    { transactions[i].description : i \in { j \in 1..Len(transactions) : transactions[j].type = "DEBIT" } }

\* the gaps in days between the consecutive occurrences of a group
GapsOf(d) ==
    intervals_of(sort_values([i \in 1..Len(GroupOf(d)) |-> GroupOf(d)[i].date]))

\* the population standard deviation of xs is at most tol:
\* sum (k*x - S)^2 = k^3 * variance, for k values of sum S
DeviationAtMost(xs, tol) ==
    SeqSum([i \in 1..Len(xs) |-> (Len(xs) * xs[i] - SeqSum(xs)) * (Len(xs) * xs[i] - SeqSum(xs))])
        <= tol * tol * Len(xs) * Len(xs) * Len(xs)

Reported(d) == \E k \in 1..Len(report.recurring) : report.recurring[k].description = d

\* C19 as stated: every group of DEBIT records sharing one description with
\* at least 2 occurrences and interval deviation <= tolerance_days is
\* reported; a description occurring exactly twice is reported.
C19_TwoOccurrencesAreReported ==
    Counted("identify_recurring_expenses") =>
        \A d \in DebitDescriptions :
            (Len(GroupOf(d)) >= 2 /\ DeviationAtMost(GapsOf(d), report.arg)) => Reported(d)

\* C19 as the code has it: a description is reported exactly when it has at
\* least 3 DEBIT occurrences (2 intervals) whose interval deviation is
\* <= tolerance_days, once each; a description occurring exactly twice is
\* never reported.
C19_ThreeOccurrencesAreReported ==
    Counted("identify_recurring_expenses") =>
        /\ \A d \in DebitDescriptions :
               Reported(d) <=> (Len(GroupOf(d)) >= 3 /\ DeviationAtMost(GapsOf(d), report.arg))
        /\ \A k \in 1..Len(report.recurring) :
               /\ report.recurring[k].description \in DebitDescriptions
               /\ \A j \in 1..Len(report.recurring) :
                      report.recurring[j].description = report.recurring[k].description => j = k

\* three occurrences at uneven gaps inside the tolerance are reported
C19_Witness ==
    /\ Counted("identify_recurring_expenses")
    /\ \E d \in DebitDescriptions :
           /\ Len(GroupOf(d)) = 3
           /\ GapsOf(d)[1] # GapsOf(d)[2]
           /\ Reported(d)

C19_WitnessTwice ==
    /\ Counted("identify_recurring_expenses")
    /\ \E d \in DebitDescriptions : Len(GroupOf(d)) = 2 /\ ~Reported(d)

\* the day of the latest occurrence of a group
LatestOf(d) ==
    CHOOSE x \in { GroupOf(d)[i].date : i \in 1..Len(GroupOf(d)) } :
        \A i \in 1..Len(GroupOf(d)) : GroupOf(d)[i].date <= x

\* the fraction q = <<numerator, denominator>> is the mean of the values xs
IsMeanOf(q, xs) == q[2] > 0 /\ q[1] * Len(xs) = SeqSum(xs) * q[2]

\* three 'Rent Payment' debits of 1200.00 spaced exactly 30 days apart
RentThrice ==
    /\ Len(transactions) = 3
    /\ \A i \in 1..3 :
           /\ transactions[i].type = "DEBIT"
           /\ transactions[i].description = "Rent Payment"
           /\ transactions[i].amount = NumCell(120000)
    /\ { transactions[i].date : i \in 1..3 } = { 40, 70, 100 }

\* C20: each reported entry carries the mean amount of its group, the mean
\* interval in days, the number of occurrences, and as next_expected_date
\* the day on which latest occurrence + mean interval falls; three
\* 'Rent Payment' debits of 1200.00 spaced 30 days apart with tolerance 3
\* give exactly one entry with average_amount 1200.00, interval_days 30.0
\* and occurrences 3.
C20_EntryCarriesGroupStatistics ==
    Counted("identify_recurring_expenses") =>
        /\ \A k \in 1..Len(report.recurring) :
               LET e == report.recurring[k]
                   g == GroupOf(e.description)
                   gaps == GapsOf(e.description)
               IN /\ IsMeanOf(e.average_amount, [i \in 1..Len(g) |-> g[i].amount.val])
                  /\ IsMeanOf(e.interval_days, gaps)
                  /\ e.occurrences = Len(g)
                  /\ Len(gaps) * e.next_expected_date
                         <= Len(gaps) * LatestOf(e.description) + SeqSum(gaps)
                  /\ Len(gaps) * LatestOf(e.description) + SeqSum(gaps)
                         < Len(gaps) * (e.next_expected_date + 1)
        /\ (RentThrice /\ report.arg = 3) =>
               /\ Len(report.recurring) = 1
               /\ report.recurring[1].description = "Rent Payment"
               /\ IsMeanOf(report.recurring[1].average_amount, <<120000>>)
               /\ IsMeanOf(report.recurring[1].interval_days, <<30>>)
               /\ report.recurring[1].occurrences = 3
               /\ report.recurring[1].next_expected_date = 130

\* the rent scenario has been analysed with tolerance 3
C20_Witness ==
    /\ Counted("identify_recurring_expenses")
    /\ RentThrice
    /\ report.arg = 3
    /\ Len(report.recurring) = 1

\* an entry whose mean interval is not a whole number of days
C20_WitnessFractionalMean ==
    /\ Counted("identify_recurring_expenses")
    /\ \E k \in 1..Len(report.recurring) :
           report.recurring[k].interval_days[1] % report.recurring[k].interval_days[2] # 0

\* the DEBIT total of one merchant inside the window of the last call
MerchantTotal(m) ==
    SeqSum([i \in 1..Len(DebitsInWindow) |->
               IF DebitsInWindow[i].merchant = m THEN DebitsInWindow[i].amount.val ELSE 0])

MerchantsInWindow ==
    { DebitsInWindow[i].merchant : i \in 1..Len(DebitsInWindow) } \ { None }

\* the place of a name in string order
NameRank(m) == CHOOSE i \in 1..Len(SortedKeys) : SortedKeys[i] = m

ReturnedMerchants == { report.items[k][1] : k \in 1..Len(report.items) }

\* the ranking without the tie rule: at most limit pairs, one per merchant
\* with DEBIT records in the window, each with its DEBIT total, descending,
\* no merchant left out that has a larger total than one returned
RankedByTotal ==
    /\ Len(report.items) <= report.arg
    /\ Len(report.items) = Min(report.arg, Cardinality(MerchantsInWindow))
    /\ \A k \in 1..Len(report.items) :
           /\ report.items[k][1] \in MerchantsInWindow
           /\ report.items[k][2] = MerchantTotal(report.items[k][1])
           /\ \A j \in 1..Len(report.items) : report.items[j][1] = report.items[k][1] => j = k
    /\ \A k \in 1..(Len(report.items) - 1) : report.items[k][2] >= report.items[k + 1][2]
    /\ \A m \in MerchantsInWindow \ ReturnedMerchants :
           \A k \in 1..Len(report.items) : report.items[k][2] >= MerchantTotal(m)

C21_TopMerchantsRankedByTotal == Counted("get_top_merchants") => RankedByTotal

(***************************************************************************)
(* Claims about Transaction.to_dict and Transaction.from_dict.             *)
(***************************************************************************)
FromDictCalled == loaded.result.kind # "none"

\* from_dict was last called on the mapping to_dict gives for the held
\* Transaction
RoundTripped == FromDictCalled /\ loaded.mapping = to_dict(transactions[1])

IsDigit(c) == c \in { DigitChars[i] : i \in 1..10 }

\* 'YYYY-MM-DDTHH:MM:SS'
IsIso8601(text) ==
    /\ Len(text) = 19
    /\ text[5] = "-" /\ text[8] = "-" /\ text[11] = "T" /\ text[14] = ":" /\ text[17] = ":"
    /\ \A i \in (1..19) \ {5, 8, 11, 14, 17} : IsDigit(text[i])

DisplayStrings ==
    { "debit", "credit", "Food & Dining", "Groceries", "Shopping", "Entertainment",
      "Transportation", "Bills & Utilities", "Healthcare", "Personal", "Transfer",
      "Income", "Other" }

\* C22: from_dict(to_dict(t)) equals t field by field, and to_dict renders
\* type and category as their display strings and the date as an ISO-8601
\* string.
C22_SerializationRoundTrips ==
    /\ RoundTripped =>
           /\ loaded.result.kind = "ok"
           /\ \A f \in DOMAIN transactions[1] :
                  loaded.result.value[f] = transactions[1][f]
    /\ FromDictCalled =>
           LET m == to_dict(transactions[1])
           IN /\ m.type \in DisplayStrings
              /\ m.type = (IF transactions[1].type = "DEBIT" THEN "debit" ELSE "credit")
              /\ m.category \in DisplayStrings
              /\ IsIso8601(m.date)

\* a pending credit-or-debit of 29 February without a merchant went through
\* to_dict and from_dict
C22_Witness ==
    /\ RoundTripped
    /\ loaded.result.kind = "ok"
    /\ transactions[1].date = 60
    /\ transactions[1].merchant = None
    /\ transactions[1].status = "pending"

RequiredKeys == { "id", "date", "description", "amount", "type", "category" }

AmountNotNumeric(m) == "amount" \in DOMAIN m /\ ~m.amount.numeric
DateUnparsable(m) == "date" \in DOMAIN m /\ ~fromisoformat(m.date).ok
TypeUnknown(m) == "type" \in DOMAIN m /\ m.type \notin { "debit", "credit" }
CategoryUnknown(m) == "category" \in DOMAIN m /\ m.category \notin DisplayStrings \ { "debit", "credit" }
KeyAbsent(m) == RequiredKeys \ DOMAIN m # {}

\* C23: from_dict fails, and constructs no Transaction, when a required
\* field is absent, when amount is not numeric, when date cannot be parsed,
\* or when type or category is not a recognized enum value.
C23_MalformedMappingIsRejected ==
    (/\ FromDictCalled
     /\ \/ KeyAbsent(loaded.mapping)
        \/ AmountNotNumeric(loaded.mapping)
        \/ DateUnparsable(loaded.mapping)
        \/ TypeUnknown(loaded.mapping)
        \/ CategoryUnknown(loaded.mapping))
        => loaded.result.kind = "raise"

\* what the code does reject: an absent required key (KeyError), an
\* unparsable date and an unknown type or category (ValueError); a mapping
\* whose only defect is its amount is loaded
C23_RejectedDefects ==
    FromDictCalled =>
        /\ (\/ KeyAbsent(loaded.mapping)
            \/ DateUnparsable(loaded.mapping)
            \/ TypeUnknown(loaded.mapping)
            \/ CategoryUnknown(loaded.mapping)) <=> loaded.result.kind = "raise"
        /\ loaded.result.kind = "raise" => loaded.result.exc \in { "KeyError", "ValueError" }

(***************************************************************************)
(* More claims about the forecaster.                                       *)
(***************************************************************************)
\* 100 * (recent - preceding), the percentage change times the preceding total
ChangeTimes100 == 100 * (RecentTotal - PrecedingTotal)

\* C26: when the preceding window's DEBIT total is non-zero, velocity is
\* (recent - previous) / previous * 100, classified 'increasing' only if it
\* is > 10, 'decreasing' only if it is < -10 and 'stable' otherwise, exactly
\* +10% and exactly -10% being 'stable'.
C26_VelocityIsPercentageChange ==
    (Counted("get_spending_velocity") /\ PrecedingTotal # 0) =>
        /\ report.velocity.velocity = <<ChangeTimes100, PrecedingTotal>>
        /\ (report.velocity.trend = "increasing") <=> (ChangeTimes100 > 10 * PrecedingTotal)
        /\ (report.velocity.trend = "decreasing") <=> (ChangeTimes100 < (-10) * PrecedingTotal)
        /\ report.velocity.trend \in { "increasing", "decreasing", "stable" }

\* a rise of exactly 10% was classified
C26_Witness ==
    /\ Counted("get_spending_velocity")
    /\ PrecedingTotal # 0
    /\ ChangeTimes100 = 10 * PrecedingTotal
    /\ report.velocity.trend = "stable"

\* a fall of exactly 10% was classified
C26_WitnessFall ==
    /\ Counted("get_spending_velocity")
    /\ PrecedingTotal # 0
    /\ ChangeTimes100 = (-10) * PrecedingTotal
    /\ report.velocity.trend = "stable"

(***************************************************************************)
(* Claims about the backend.                                               *)
(***************************************************************************)
\* the three kinds of LLM failure: the provider is not configured, every
\* attempt raises, the answer holds no JSON object
Misconfigured(envr) == LLMClient(envr).kind # "ok"

RetriesExhausted(envr) ==
    ~Misconfigured(envr) /\ \A k \in 1..3 : envr.api[k].kind # "ok"

Unparsable(envr) ==
    /\ ~Misconfigured(envr)
    /\ generate(envr).kind = "ok"
    /\ json_loads_object(generate(envr).value).kind # "ok"

LlmFailure(envr) == Misconfigured(envr) \/ RetriesExhausted(envr) \/ Unparsable(envr)

NoTransactionsFound == [error |-> "No transactions found."]

(***************************************************************************)
(* C24: with a non-empty store the analyze endpoint answers with the local *)
(* fallback analysis (analysis_source 'Fallback') on every kind of LLM     *)
(* failure: unparsable response, provider exception after the retries are  *)
(* exhausted, misconfigured provider; the response is never an error.      *)
(***************************************************************************)
C24_LlmFailureGivesFallback ==
    \A envr \in Environments :
        (transactions_db # <<>> /\ LlmFailure(envr))
            => analyze_transactions(transactions_db, envr) = fallback_analysis(transactions_db)

\* what the endpoint does instead: with a non-empty store every analyze
\* request is answered by an error
AnalyzeFailsOnEveryCall ==
    [][(Analyze /\ transactions_db # <<>>) => HasError(response'.body)]_vars

(***************************************************************************)
(* C25: a request that finds the store empty is answered by the analyze    *)
(* and the forecast endpoint with a normal response whose 'error' field is *)
(* 'No transactions found.', without the LLM or the forecast code being    *)
(* called; and the forecast endpoint answers every failure of the forecast *)
(* with an 'error' response, a success with the forecast.                  *)
(***************************************************************************)
ForecastAnswered ==
    LET result == get_forecast(DataFrame(transactions_db), forecasting.method)
    IN /\ response'.endpoint = "forecast"
       /\ IF result.kind = "ok"
          THEN /\ ~HasError(response'.body)
               /\ response'.body.predicted_next_month_amount = result.predicted_next_month_amount
          ELSE response'.body = [error |-> "Forecasting failed: " \o result.msg]

C25_EmptyStoreAndFailuresGiveErrorResponses ==
    [][ /\ (Analyze /\ transactions_db = <<>>)
            => response' = Response("analyze", "", NoTransactionsFound)
        /\ (Forecast /\ transactions_db = <<>>)
            => /\ response'.endpoint = "forecast"
               /\ response'.body = NoTransactionsFound
               /\ ~forecasting'.busy
        /\ ForecastCompute => ForecastAnswered ]_vars

C25_Witness ==
    /\ transactions_db = <<>>
    /\ response = Response("analyze", "", NoTransactionsFound)

C25_WitnessFailure ==
    /\ transactions_db # <<>>
    /\ response = Response("forecast", "linear", [error |-> "Forecasting failed: " \o MsgTooFew])

(***************************************************************************)
(* C27: a call wrapped by with_retries invokes the underlying function at  *)
(* most 3 times: it returns the result of the first attempt that succeeds  *)
(* without any further attempt, waits between failed attempts, and after 3 *)
(* failed attempts raises a RuntimeError instead of returning a value.     *)
(***************************************************************************)
WrappedCalled == called.result.kind # "none"

Succeeding == { k \in 1..3 : called.func[k].kind = "ok" }

FirstSucceeding == CHOOSE k \in Succeeding : \A j \in Succeeding : k <= j

C27_AtMostThreeAttempts ==
    WrappedCalled =>
        /\ called.result.calls <= 3
        /\ IF Succeeding # {}
           THEN /\ called.result.kind = "ok"
                /\ called.result.value = called.func[FirstSucceeding].value
                /\ called.result.calls = FirstSucceeding
           ELSE /\ called.result.kind = "RuntimeError"
                /\ called.result.calls = 3
        /\ \A i \in 1..(called.result.calls - 1) :
               /\ i <= Len(called.result.sleeps)
               /\ called.result.sleeps[i] >= 10 * Power2(i - 1)

C27_Witness ==
    /\ WrappedCalled
    /\ FirstSucceeding = 3
    /\ called.result.kind = "ok"
    /\ Len(called.result.sleeps) = 2

C27_WitnessExhausted ==
    /\ WrappedCalled
    /\ Succeeding = {}
    /\ called.result.kind = "RuntimeError"
    /\ Len(called.result.sleeps) = 3

(***************************************************************************)
(* C28: after any sequence of upload requests the store holds exactly the  *)
(* records of the most recent successful upload: a successful upload       *)
(* leaves the records of its file and nothing else in the store, an upload *)
(* that fails to decode or parse leaves the store as it was, and no other  *)
(* request changes the store.                                              *)
(***************************************************************************)
FileNamed(name) == CHOOSE file \in Uploads : file.name = name

C28_StoreHoldsLastSuccessfulUpload ==
    [][ /\ UploadExtend
            => /\ transactions_db' = FileNamed(uploading.file).records
               /\ response'.body = [status |-> "success",
                                    rows_uploaded |-> Len(FileNamed(uploading.file).records)]
        /\ (Upload /\ ~uploading'.busy)
            => /\ HasError(response'.body)
               /\ transactions_db' = transactions_db
        /\ (~Upload /\ ~UploadExtend) => transactions_db' = transactions_db ]_vars

\* a list request has counted the two records of an earlier batch, and the
\* upload of one_month.csv has replaced them
C28_Witness ==
    /\ listing.busy
    /\ listing.total = 2
    /\ ~uploading.busy
    /\ transactions_db = OneMonthFile.records
    /\ response = Response("upload", "one_month.csv", [status |-> "success", rows_uploaded |-> 1])

\* an upload has failed and the store still holds the batch
C28_WitnessFailed ==
    /\ transactions_db = TwoMonthsFile.records
    /\ response.endpoint = "upload"
    /\ HasError(response.body)

(***************************************************************************)
(* C29: the request layer guards the store against read/replace races: a   *)
(* transactions, forecast or analyze request never reads the store between *)
(* the clear and the extend of an upload, and what a request reads in      *)
(* several steps comes from one batch.                                     *)
(***************************************************************************)
ReadsStore == Forecast \/ ForecastCompute \/ ListTransactions \/ ListSlice \/ Analyze

C29_ReadersSeeWholeBatches ==
    [][ /\ ReadsStore => ~uploading.busy
        /\ ListSlice => listing.total = Len(transactions_db)
        /\ ForecastCompute => transactions_db # <<>> ]_vars

\* the part that holds: analyze, a coroutine like upload, never reads the
\* store of an upload in progress
AnalyzeSeesWholeBatches == [][Analyze => ~uploading.busy]_vars

(***************************************************************************)
(* Claims about the frontend.                                              *)
(***************************************************************************)
\* what the forecast endpoint answers for the store as it is
FreshForecast(method) ==
    IF transactions_db = <<>> THEN NoTransactionsFound
    ELSE forecast_of_store(transactions_db, method)

(***************************************************************************)
(* C30: a forecast shown to the user always reflects the batch currently   *)
(* in the store: after a forecast request, a successful upload of a        *)
(* different file and a second forecast request with the same method, the  *)
(* forecast shown is computed from the new batch and is not the cached     *)
(* result of the first.                                                    *)
(***************************************************************************)
C30_ShownForecastIsCurrent ==
    shown # NotShown => shown.data = FreshForecast(shown.method)

\* the part that holds: a forecast fetched from the backend is current when
\* it is displayed
FetchedForecastIsCurrent ==
    [][PageForecastShow => shown'.data = FreshForecast(shown'.method)]_vars

====
